---- MODULE Spec2Model ----
(***************************************************************************)
(* A model of the audio recognition orchestrator of jwstep/audify:         *)
(* AIRecognitionEngine (lazy service initialization, the bounded readiness *)
(* wait, the staged recognizeAudio pipeline and combineResults).           *)
(*                                                                         *)
(* The engine modelled is the one that carries the TensorFlow step         *)
(* (src/unnamed/part_002); src/src/app/services/aiRecognitionEngine.ts is  *)
(* the same code without that step.                                        *)
(*                                                                         *)
(* Confidences are fixed-point numbers in thousandths (0.85 is 850).       *)
(* Times are in milliseconds.                                              *)
(***************************************************************************)
EXTENDS Integers, Sequences, FiniteSets, TLC

VARIABLES
    speechService,          \* engine field: truthy once constructed
    classificationService,  \* engine field: truthy once constructed
    audioAnalyzer,          \* engine field: truthy once constructed
    isModelLoaded,          \* tensorFlowService.isModelLoaded (isReady())
    isInitializing,         \* engine field
    initializationPromise,  \* engine field: 0 is null, else the run it belongs to
    initRuns,               \* each performInitialization run: "none", "importing", "done"
    constructions,          \* history: how many times the subsystem set was constructed
    initFailures,           \* history: how many initialization runs ended in the catch block
    call,                   \* each recognizeAudio call: its position and locals
    combineIn,              \* the inputs of a stand-alone combineResults evaluation
    combineOut,             \* its result
    classify,               \* a classifyAudio call: its position, its blob, its result
    classifiers,            \* the three classifier promises of that call, in dispatch order
    analyzer,               \* an AudioAnalyzer.analyzeAudio call and the resources it holds
    extract,                \* a decoded buffer, the analyser's bins and the features extracted
    recognition,            \* the SpeechRecognitionService and its analyzeAudioFile calls
    loader,                 \* the TensorFlowAudioRecognitionService model loader
    visualizer,             \* an AudioVisualizer: its refs, state and loadAudio calls
    processor,              \* a RealTimeProcessor: its refs and the resources held open
    recorder                \* an AudioRecorder: its state and analyzeAudio calls

engineVars == <<speechService, classificationService, audioAnalyzer, isModelLoaded,
                isInitializing, initializationPromise, initRuns, constructions,
                initFailures>>
serviceVars == <<classify, classifiers, analyzer>>
unitVars == <<extract, recognition, loader>>
componentVars == <<visualizer, processor, recorder>>
harnessVars == <<combineIn, combineOut, serviceVars, unitVars, componentVars>>
vars == <<engineVars, call, harnessVars>>

---------------------------------------------------------------------------
(* Bounds and program constants *)

Timeout == 5000
PollInterval == 100
MaxInitFailures == 2
MaxOvershoot == 2
LatePolls == 10

\* the recognizeAudio calls followed: one through the whole pipeline, two
\* overlapping ones through the readiness wait
OneCall == {"a"}
TwoCalls == {"a", "b"}
Runs == 1..(MaxInitFailures + 1)
ClockCap == Timeout + MaxOvershoot * PollInterval

Min(a, b) == IF a < b THEN a ELSE b
Max(a, b) == IF a > b THEN a ELSE b

\* undefined; every value that may be undefined carries the field 'defined'
Undefined == [defined |-> FALSE]

\* not-a-number, kept apart from every confidence
NaN == 0 - 1

---------------------------------------------------------------------------
(* Values: classification results, analyses, features *)

CreateFallbackClassification ==
    [defined |-> TRUE,
     primaryClassification |->
        [label |-> "Audio Content", confidence |-> 500, category |-> "other",
         description |-> "General audio content detected"],
     secondaryClassifications |-> <<>>,
     overallConfidence |-> 500,
     detectedCategories |-> {"other"},
     audioType |-> "mixed"]

CreateFallbackFeatures ==
    [defined |-> TRUE, spectralCentroid |-> 0, spectralRolloff |-> 0, spectralFlatness |-> 0,
     zeroCrossingRate |-> 0, rmsEnergy |-> 0, dominantFrequencies |-> <<>>,
     frequencyBands |-> [low |-> 0, mid |-> 0, high |-> 0],
     pitch |-> 0, tempo |-> 0]

\* String.prototype.toLowerCase on the labels the services produce.
ToLowerCase(label) ==
    CASE label = "Audio Content" -> "audio content"
      [] label = "Cat Meowing" -> "cat meowing"
      [] label = "Rock Music" -> "rock music"
      [] label = "Human Speech" -> "human speech"
      [] label = "Short Audio Clip" -> "short audio clip"
      [] label = "Thunder" -> "thunder"
      [] label = "Long Audio Content" -> "long audio content"
      [] OTHER -> label

\* Number.prototype.toFixed(1) of a confidence times 100: thousandths split into
\* whole percent and one decimal digit.
PercentToFixed1(thousandths) ==
    IF thousandths = NaN THEN <<"NaN">>
    ELSE <<thousandths \div 10, thousandths % 10>>

\* Array.prototype.slice(0, n)
SliceFirst(seq, n) == SubSeq(seq, 1, Min(n, Len(seq)))

MapCategoryToAudioType(category) ==
    CASE category = "music" -> "music"
      [] category = "speech" -> "speech"
      [] category = "animal" -> "environmental"
      [] category = "environmental" -> "environmental"
      [] OTHER -> "mixed"

---------------------------------------------------------------------------
(* combineResults, statement by statement.  The accumulator f holds the     *)
(* function's locals: primaryRecognition, confidence, audioType,            *)
(* detectedContent, language, sentiment.                                    *)

CombineLocals ==
    [primaryRecognition |-> <<>>, confidence |-> 0, audioType |-> "unknown",
     detectedContent |-> <<>>, language |-> "undefined", sentiment |-> "undefined"]

\* PRIORITY 1: TensorFlow AI results
TensorFlowPriority(f, tensorFlowAnalysis) ==
    IF tensorFlowAnalysis.defined
       /\ tensorFlowAnalysis.primaryRecognition.confidence > f.confidence
    THEN LET tfResult == tensorFlowAnalysis.primaryRecognition IN
         [f EXCEPT
            !.primaryRecognition = <<tfResult.label, ": ", tfResult.description>>,
            !.confidence = tfResult.confidence,
            !.audioType = MapCategoryToAudioType(tfResult.category),
            !.detectedContent = @ \o
                << <<"AI Recognition">>,
                   <<"Type: ", tfResult.label>>,
                   <<"Category: ", tfResult.category>> >> \o
                (IF Len(tfResult.tags) > 0
                 THEN << <<"Tags: ", SliceFirst(tfResult.tags, 3)>> >>
                 ELSE <<>>)]
    ELSE f

\* the speech step replacing the holder on equal confidence as well
SpeechPriority_GreaterEqual(f, speechAnalysis) ==
    IF speechAnalysis.defined /\ speechAnalysis.confidence >= f.confidence
    THEN [f EXCEPT
            !.primaryRecognition =
                <<"Speech detected: \"", speechAnalysis.transcription, "\"">>,
            !.confidence = speechAnalysis.confidence,
            !.audioType = "speech",
            !.language = speechAnalysis.language,
            !.sentiment = speechAnalysis.sentiment,
            !.detectedContent = @ \o
                << <<"Human Speech">>,
                   <<"Language: ", speechAnalysis.language>>,
                   <<"Words: ", speechAnalysis.wordCount>> >> \o
                (IF Len(speechAnalysis.keywords) > 0
                 THEN << <<"Keywords: ", SliceFirst(speechAnalysis.keywords, 5)>> >>
                 ELSE <<>>)]
    ELSE f

\* PRIORITY 2: Speech analysis results
SpeechPriority(f, speechAnalysis) ==
    IF speechAnalysis.defined /\ speechAnalysis.confidence > f.confidence
    THEN [f EXCEPT
            !.primaryRecognition =
                <<"Speech detected: \"", speechAnalysis.transcription, "\"">>,
            !.confidence = speechAnalysis.confidence,
            !.audioType = "speech",
            !.language = speechAnalysis.language,
            !.sentiment = speechAnalysis.sentiment,
            !.detectedContent = @ \o
                << <<"Human Speech">>,
                   <<"Language: ", speechAnalysis.language>>,
                   <<"Words: ", speechAnalysis.wordCount>> >> \o
                (IF Len(speechAnalysis.keywords) > 0
                 THEN << <<"Keywords: ", SliceFirst(speechAnalysis.keywords, 5)>> >>
                 ELSE <<>>)]
    ELSE f

\* PRIORITY 3 with the default branch leaving audioType as it was
ClassificationPriority_KeepsTypeForOther(f, audioClassification) ==
    IF audioClassification.primaryClassification.confidence > f.confidence
    THEN LET classification == audioClassification.primaryClassification
         IN [f EXCEPT
               !.primaryRecognition =
                   <<classification.label, ": ", classification.description>>,
               !.confidence = Max(f.confidence, classification.confidence),
               !.audioType =
                   CASE classification.category = "animal" -> "environmental"
                     [] classification.category = "music" -> "music"
                     [] classification.category = "speech" -> "speech"
                     [] OTHER -> @]
    ELSE f

\* PRIORITY 3: Audio classification results
ClassificationPriority(f, audioClassification) ==
    IF audioClassification.primaryClassification.confidence > f.confidence
    THEN LET classification == audioClassification.primaryClassification
             g == [f EXCEPT
                     !.primaryRecognition =
                         <<classification.label, ": ", classification.description>>,
                     !.confidence = Max(f.confidence, classification.confidence)]
         IN CASE classification.category = "animal" ->
                   [g EXCEPT !.audioType = "environmental",
                             !.detectedContent = @ \o
                                << <<"Animal Sound">>,
                                   <<"Species: ", classification.label>>,
                                   <<"Type: ", classification.description>> >>]
              [] classification.category = "music" ->
                   [g EXCEPT !.audioType = "music",
                             !.detectedContent = @ \o
                                << <<"Musical Content">>,
                                   <<"Genre: ", classification.label>>,
                                   <<"Style: ", classification.description>> >>]
              [] classification.category = "speech" ->
                   [g EXCEPT !.audioType = "speech",
                             !.detectedContent = @ \o
                                << <<"Vocal Content">>,
                                   <<"Type: ", classification.label>>,
                                   <<"Style: ", classification.description>> >>]
              [] OTHER ->
                   [g EXCEPT !.audioType = audioClassification.audioType]
    ELSE f

\* "Add TensorFlow AI insights", "Add classification details", "Add secondary
\* classifications", "Spectral analysis insights"
DetailEntries(f, audioClassification, spectralFeatures, tensorFlowAnalysis) ==
    [f EXCEPT !.detectedContent = @ \o
        (IF tensorFlowAnalysis.defined
         THEN << <<"AI Model: ", tensorFlowAnalysis.modelUsed>>,
                 <<"AI Confidence: ", PercentToFixed1(tensorFlowAnalysis.overallConfidence), "%">>,
                 <<"AI Processing: ", "ms">> >>
         ELSE <<>>) \o
        << <<"Category: ", audioClassification.primaryClassification.category>>,
           <<"Confidence: ", PercentToFixed1(audioClassification.overallConfidence), "%">> >> \o
        (IF Len(audioClassification.secondaryClassifications) > 0
         THEN << <<"Also detected: ",
                   [i \in 1..Len(audioClassification.secondaryClassifications) |->
                       audioClassification.secondaryClassifications[i].label]>> >>
         ELSE <<>>) \o
        (IF spectralFeatures.pitch > 0
         THEN << <<"Pitch: ", spectralFeatures.pitch, " Hz">> >> ELSE <<>>) \o
        (IF spectralFeatures.tempo > 0
         THEN << <<"Tempo: ", spectralFeatures.tempo, " BPM">> >> ELSE <<>>)]

\* "Determine if it's mixed content"
MixedContent(f, speechAnalysis, audioClassification) ==
    IF speechAnalysis.defined /\ audioClassification.audioType # "speech"
    THEN [f EXCEPT
            !.audioType = "mixed",
            !.primaryRecognition =
                <<"Mixed content: ">> \o f.primaryRecognition \o
                <<" with background ",
                  ToLowerCase(audioClassification.primaryClassification.label)>>]
    ELSE f

\* the enhancement adding the two confidences, neither halved nor capped
EnhanceConfidence_Sum(f, speechAnalysis, audioClassification) ==
    IF speechAnalysis.defined
       /\ audioClassification.primaryClassification.confidence > 700
    THEN [f EXCEPT !.confidence = f.confidence + audioClassification.overallConfidence]
    ELSE f

\* "Enhance confidence based on multiple sources".  The sample confidences are
\* even numbers of thousandths, so the halving is exact.
EnhanceConfidence(f, speechAnalysis, audioClassification) ==
    IF speechAnalysis.defined
       /\ audioClassification.primaryClassification.confidence > 700
    THEN [f EXCEPT !.confidence =
            Min(950, (f.confidence + audioClassification.overallConfidence) \div 2)]
    ELSE f

\* Reading .confidence of an undefined primaryRecognition throws a TypeError.
CombineThrows(tensorFlowAnalysis) ==
    tensorFlowAnalysis.defined /\ ~tensorFlowAnalysis.primaryRecognition.defined

CombineResults(speechAnalysis, audioClassification, spectralFeatures, tensorFlowAnalysis) ==
    IF CombineThrows(tensorFlowAnalysis)
    THEN [threw |-> TRUE, error |-> "TypeError"]
    ELSE LET f1 == TensorFlowPriority(CombineLocals, tensorFlowAnalysis)
             f2 == SpeechPriority(f1, speechAnalysis)
             f3 == ClassificationPriority(f2, audioClassification)
             f4 == DetailEntries(f3, audioClassification, spectralFeatures,
                                 tensorFlowAnalysis)
             f5 == MixedContent(f4, speechAnalysis, audioClassification)
             f6 == EnhanceConfidence(f5, speechAnalysis, audioClassification)
         IN [threw |-> FALSE,
             primaryRecognition |-> f6.primaryRecognition,
             confidence |-> f6.confidence,
             speechAnalysis |-> speechAnalysis,
             audioClassification |-> audioClassification,
             spectralFeatures |-> spectralFeatures,
             tensorFlowAnalysis |-> tensorFlowAnalysis,
             audioType |-> f6.audioType,
             detectedContent |-> f6.detectedContent,
             language |-> f6.language,
             sentiment |-> f6.sentiment]

---------------------------------------------------------------------------
(* AudioAnalyzer.extractFeatures (the version that reads its spectrum from   *)
(* a Web Audio AnalyserNode).  Samples, energies and rates are fixed-point   *)
(* numbers in thousandths; frequencies are whole Hz; magnitudes are whole    *)
(* numbers.  Infinity and NaN are kept apart from every number and follow    *)
(* the IEEE rules in Plus, Times and Divide.                                 *)

Infinity == 2000000000

\* the analyser's fftSize: 2048 in the code, fewer bins are followed here
FftSize == 16

\* a + b on non-negative numbers
Plus(a, b) ==
    IF a = NaN \/ b = NaN THEN NaN
    ELSE IF a = Infinity \/ b = Infinity THEN Infinity
    ELSE a + b

\* a * b on non-negative numbers: 0 * Infinity is NaN
Times(a, b) ==
    IF a = NaN \/ b = NaN THEN NaN
    ELSE IF a = Infinity \/ b = Infinity
         THEN (IF a = 0 \/ b = 0 THEN NaN ELSE Infinity)
    ELSE a * b

\* a / b on non-negative numbers, to a whole number: 0/0 and
\* Infinity/Infinity are NaN
Divide(a, b) ==
    IF a = NaN \/ b = NaN THEN NaN
    ELSE IF a = Infinity THEN (IF b = Infinity THEN NaN ELSE Infinity)
    ELSE IF b = Infinity THEN 0
    ELSE IF b = 0 THEN (IF a = 0 THEN NaN ELSE Infinity)
    ELSE a \div b

\* a > b and a >= b: every comparison with NaN is false
Gt(a, b) == a # NaN /\ b # NaN /\ a > b
Ge(a, b) == a # NaN /\ b # NaN /\ a >= b

\* Math.abs of a level in dB
MathAbs(x) == IF x < 0 THEN 0 - x ELSE x

\* Math.min and Math.max: NaN if either argument is NaN
MathMin(a, b) == IF a = NaN \/ b = NaN THEN NaN ELSE Min(a, b)
MathMax(a, b) == IF a = NaN \/ b = NaN THEN NaN ELSE Max(a, b)

\* Math.sqrt of a whole number, rounded down: the root lies in low..high
RECURSIVE SqrtBetween(_, _, _)
SqrtBetween(v, low, high) ==
    IF low = high THEN low
    ELSE LET mid == (low + high + 1) \div 2
         IN IF mid * mid > v
            THEN SqrtBetween(v, low, mid - 1)
            ELSE SqrtBetween(v, mid, high)

MathSqrt(v) ==
    IF v = NaN THEN NaN
    ELSE IF v = Infinity THEN Infinity
    ELSE SqrtBetween(v, 0, Min(v, 46340))

RECURSIVE SumOfSquares(_)
SumOfSquares(channelData) ==
    IF channelData = <<>> THEN 0
    ELSE Head(channelData) * Head(channelData) + SumOfSquares(Tail(channelData))

\* calculateRMSEnergy: samples in thousandths, so their squares are in
\* millionths and the root is in thousandths again
CalculateRMSEnergy(channelData) ==
    MathSqrt(Divide(SumOfSquares(channelData), Len(channelData)))

\* the crossings counted by the loop of calculateZeroCrossingRate
Crossings(channelData) ==
    Cardinality({i \in 2..Len(channelData) :
        \/ channelData[i] >= 0 /\ channelData[i - 1] < 0
        \/ channelData[i] < 0 /\ channelData[i - 1] >= 0})

\* the crossings divided by the number of samples
CalculateZeroCrossingRate_OverLength(channelData) ==
    Divide(Crossings(channelData) * 1000, Len(channelData))

\* calculateZeroCrossingRate, in thousandths: crossings / (length - 1), which
\* is 0/0 for a buffer of one sample
CalculateZeroCrossingRate(channelData) ==
    Divide(Crossings(channelData) * 1000, Len(channelData) - 1)

\* estimateTempo: zeroCrossingRate * sampleRate * 60 / (2 * Math.PI), clamped
\* by Math.max(60, Math.min(200, ...)); 60 / (2 pi) is 9.549
EstimateTempo(channelData, sampleRate) ==
    LET zeroCrossingRate == CalculateZeroCrossingRate(channelData)
        estimatedTempo ==
            IF zeroCrossingRate = NaN THEN NaN
            ELSE (((zeroCrossingRate * sampleRate) \div 1000) * 9549) \div 1000
    IN MathMax(60, MathMin(200, estimatedTempo))

\* analyser.frequencyBinCount
FrequencyBinCount == FftSize \div 2

\* what getFloatFrequencyData writes into every bin of an analyser whose
\* source was never started: 20 log10(0), which is -Infinity, or the
\* analyser's minDecibels (-100) on engines that floor the level there
NegativeInfinity == 0 - Infinity
MinDecibels == 0 - 100
SilentLevels == {NegativeInfinity, MinDecibels}

\* getFrequencyDataFromAnalyser: the buffer source is connected but never
\* started, so the bins do not depend on the buffer
GetFrequencyDataFromAnalyser(sampleRate, level) ==
    [frequencies |-> [b \in 1..FrequencyBinCount |-> ((b - 1) * sampleRate) \div FftSize],
     magnitudes |-> [b \in 1..FrequencyBinCount |-> MathAbs(level)]]

\* the sum of the first n magnitudes, as the loops accumulate it
RECURSIVE SumOfMagnitudes(_, _)
SumOfMagnitudes(magnitudes, n) ==
    IF n = 0 THEN 0
    ELSE Plus(SumOfMagnitudes(magnitudes, n - 1), magnitudes[n])

RECURSIVE WeightedSum(_, _, _)
WeightedSum(frequencies, magnitudes, n) ==
    IF n = 0 THEN 0
    ELSE Plus(WeightedSum(frequencies, magnitudes, n - 1),
              Times(frequencies[n], magnitudes[n]))

\* calculateSpectralCentroid
CalculateSpectralCentroid(frequencies, magnitudes) ==
    LET weightedSum == WeightedSum(frequencies, magnitudes, Len(frequencies))
        magnitudeSum == SumOfMagnitudes(magnitudes, Len(frequencies))
    IN IF Gt(magnitudeSum, 0) THEN Divide(weightedSum, magnitudeSum) ELSE 0

\* the rolloff threshold in percent: 'const threshold = 0.85'
RolloffThreshold == 85

RECURSIVE RolloffFrom(_, _, _, _, _)
\* the second loop of calculateSpectralRolloff testing with '>'
RolloffFrom_Exceeds(frequencies, magnitudes, threshold, totalEnergy, i) ==
    IF i > Len(frequencies)
    THEN frequencies[Len(frequencies)]
    ELSE IF Gt(Times(SumOfMagnitudes(magnitudes, i), 100), Times(threshold, totalEnergy))
         THEN frequencies[i]
         ELSE RolloffFrom(frequencies, magnitudes, threshold, totalEnergy, i + 1)

\* the second loop of calculateSpectralRolloff from bin i on
RolloffFrom(frequencies, magnitudes, threshold, totalEnergy, i) ==
    IF i > Len(frequencies)
    THEN frequencies[Len(frequencies)]
    ELSE IF Ge(Times(SumOfMagnitudes(magnitudes, i), 100), Times(threshold, totalEnergy))
         THEN frequencies[i]
         ELSE RolloffFrom(frequencies, magnitudes, threshold, totalEnergy, i + 1)

\* calculateSpectralRolloff with its threshold as a parameter
SpectralRolloffAt(frequencies, magnitudes, threshold) ==
    RolloffFrom(frequencies, magnitudes, threshold,
                SumOfMagnitudes(magnitudes, Len(magnitudes)), 1)

CalculateSpectralRolloff(frequencies, magnitudes) ==
    SpectralRolloffAt(frequencies, magnitudes, RolloffThreshold)

RECURSIVE Power(_, _)
Power(x, n) == IF n = 0 THEN 1 ELSE x * Power(x, n - 1)

\* Math.pow(v, 1 / n), rounded down
RECURSIVE RootFrom(_, _, _)
RootFrom(v, n, r) == IF Power(r + 1, n) > v THEN r ELSE RootFrom(v, n, r + 1)

RECURSIVE ProductOfPositive(_, _)
ProductOfPositive(magnitudes, n) ==
    IF n = 0 THEN 1
    ELSE IF Gt(magnitudes[n], 0)
         THEN Times(ProductOfPositive(magnitudes, n - 1), magnitudes[n])
         ELSE ProductOfPositive(magnitudes, n - 1)

\* the product of the Math.pow(magnitude, 1 / length) factors: the magnitude
\* itself when every bin holds the same one, else the root of the product
GeometricMean(magnitudes) ==
    IF \A i \in 1..Len(magnitudes) : magnitudes[i] = magnitudes[1]
    THEN (IF Gt(magnitudes[1], 0) THEN magnitudes[1] ELSE 1)
    ELSE LET product == ProductOfPositive(magnitudes, Len(magnitudes))
         IN IF product = Infinity THEN Infinity
            ELSE RootFrom(product, Len(magnitudes), 0)

\* calculateSpectralFlatness, in thousandths
CalculateSpectralFlatness(magnitudes) ==
    LET sum == SumOfMagnitudes(magnitudes, Len(magnitudes))
    IN IF Gt(sum, 0)
       THEN Divide(Times(Times(GeometricMean(magnitudes), 1000), Len(magnitudes)), sum)
       ELSE 0

\* the high band taking the bins above 4000 Hz only
InBand_HighAbove(band, frequency) ==
    CASE band = "low" -> frequency < 250
      [] band = "mid" -> ~(frequency < 250) /\ frequency < 4000
      [] OTHER -> frequency > 4000

\* the branch of the if / else if / else chain of calculateFrequencyBands
\* that a bin takes
InBand(band, frequency) ==
    CASE band = "low" -> frequency < 250
      [] band = "mid" -> ~(frequency < 250) /\ frequency < 4000
      [] OTHER -> ~(frequency < 250) /\ ~(frequency < 4000)

\* lowEnergy, midEnergy or highEnergy after the first n bins
RECURSIVE BandEnergy(_, _, _, _)
BandEnergy(frequencies, magnitudes, band, n) ==
    IF n = 0 THEN 0
    ELSE IF InBand(band, frequencies[n])
         THEN Plus(BandEnergy(frequencies, magnitudes, band, n - 1), magnitudes[n])
         ELSE BandEnergy(frequencies, magnitudes, band, n - 1)

\* calculateFrequencyBands
CalculateFrequencyBands(frequencies, magnitudes) ==
    [low |-> BandEnergy(frequencies, magnitudes, "low", Len(frequencies)),
     mid |-> BandEnergy(frequencies, magnitudes, "mid", Len(frequencies)),
     high |-> BandEnergy(frequencies, magnitudes, "high", Len(frequencies))]

\* the place of a bin in a list sorted so far by (a, b) => b.magnitude -
\* a.magnitude: behind every bin of the same or a greater magnitude (a NaN
\* difference, as of two infinite magnitudes, compares as equal)
RECURSIVE InsertByMagnitude(_, _)
InsertByMagnitude(x, sorted) ==
    IF sorted = <<>> THEN <<x>>
    ELSE IF Head(sorted).magnitude >= x.magnitude
         THEN <<Head(sorted)>> \o InsertByMagnitude(x, Tail(sorted))
         ELSE <<x>> \o sorted

RECURSIVE SortByMagnitude(_)
SortByMagnitude(list) ==
    IF list = <<>> THEN <<>>
    ELSE InsertByMagnitude(list[Len(list)],
                           SortByMagnitude(SubSeq(list, 1, Len(list) - 1)))

\* the first five bins taken without sorting
FindDominantFrequencies_Unsorted(frequencies, magnitudes) ==
    SliceFirst(frequencies, 5)

\* findDominantFrequencies
FindDominantFrequencies(frequencies, magnitudes) ==
    LET sortedIndices ==
            SliceFirst(SortByMagnitude([i \in 1..Len(magnitudes) |->
                          [magnitude |-> magnitudes[i], index |-> i]]), 5)
    IN [k \in 1..Len(sortedIndices) |-> frequencies[sortedIndices[k].index]]

RECURSIVE PitchLoop(_, _, _)
\* the loop of estimatePitch without the upper edge of the band
PitchLoop_NoUpperEdge(frequencies, magnitudes, n) ==
    IF n = 0 THEN [maxMagnitude |-> 0, dominantFreq |-> 0]
    ELSE LET before == PitchLoop(frequencies, magnitudes, n - 1)
         IN IF Gt(magnitudes[n], before.maxMagnitude) /\ frequencies[n] > 80
            THEN [maxMagnitude |-> magnitudes[n], dominantFreq |-> frequencies[n]]
            ELSE before

\* the loop of estimatePitch over the first n bins: maxMagnitude, dominantFreq
PitchLoop(frequencies, magnitudes, n) ==
    IF n = 0 THEN [maxMagnitude |-> 0, dominantFreq |-> 0]
    ELSE LET before == PitchLoop(frequencies, magnitudes, n - 1)
         IN IF Gt(magnitudes[n], before.maxMagnitude)
               /\ frequencies[n] > 80 /\ frequencies[n] < 800
            THEN [maxMagnitude |-> magnitudes[n], dominantFreq |-> frequencies[n]]
            ELSE before

\* estimatePitch
EstimatePitch(frequencies, magnitudes) ==
    PitchLoop(frequencies, magnitudes, Len(magnitudes)).dominantFreq

\* the features extractFeatures computes from the spectrum
SpectrumFeatures(frequencies, magnitudes) ==
    [spectralCentroid |-> CalculateSpectralCentroid(frequencies, magnitudes),
     spectralRolloff |-> CalculateSpectralRolloff(frequencies, magnitudes),
     spectralFlatness |-> CalculateSpectralFlatness(magnitudes),
     dominantFrequencies |-> FindDominantFrequencies(frequencies, magnitudes),
     frequencyBands |-> CalculateFrequencyBands(frequencies, magnitudes),
     pitch |-> EstimatePitch(frequencies, magnitudes)]

\* extractFeatures
ExtractFeatures(channelData, sampleRate, level) ==
    LET frequencyData == GetFrequencyDataFromAnalyser(sampleRate, level)
        spectral == SpectrumFeatures(frequencyData.frequencies, frequencyData.magnitudes)
    IN [defined |-> TRUE,
        spectralCentroid |-> spectral.spectralCentroid,
        spectralRolloff |-> spectral.spectralRolloff,
        spectralFlatness |-> spectral.spectralFlatness,
        zeroCrossingRate |-> CalculateZeroCrossingRate(channelData),
        rmsEnergy |-> CalculateRMSEnergy(channelData),
        dominantFrequencies |-> spectral.dominantFrequencies,
        frequencyBands |-> spectral.frequencyBands,
        pitch |-> spectral.pitch,
        tempo |-> EstimateTempo(channelData, sampleRate)]

\* decoded buffers: two seconds of silence and a tone are stood for by three
\* samples each, and the shortest buffer there is has one sample
SilentBuffer == <<0, 0, 0>>
ToneBuffer == <<500, 0 - 500, 500>>
OneSampleBuffer == <<0>>

\* the sample rates of an AudioContext
SampleRates == {44100, 48000}

ExtractIdle == [pc |-> "idle"]

\* extractFeatures on a decoded buffer
ExtractFeaturesCompletes ==
    /\ extract.pc = "decoded"
    /\ extract' = [extract EXCEPT
            !.pc = "extracted",
            !.features = ExtractFeatures(extract.channelData, extract.sampleRate,
                                         extract.level)]
    /\ UNCHANGED <<engineVars, call, combineIn, combineOut, serviceVars,
                   recognition, loader, componentVars>>

\* the spectral functions of extractFeatures on a spectrum
AnalyzeSpectrum ==
    /\ extract.pc = "spectrum"
    /\ extract' = [extract EXCEPT
            !.pc = "analyzed",
            !.features = SpectrumFeatures(extract.frequencies, extract.magnitudes)]
    /\ UNCHANGED <<engineVars, call, combineIn, combineOut, serviceVars,
                   recognition, loader, componentVars>>

---------------------------------------------------------------------------
(* What the awaited services can settle with *)

Rejected(reason) == [status |-> "rejected", reason |-> reason]
Fulfilled(value) == [status |-> "fulfilled", value |-> value]

SpeechHello ==
    [defined |-> TRUE, transcription |-> "hello world", confidence |-> 800,
     language |-> "English", wordCount |-> 2, keywords |-> <<"hello", "world">>,
     sentiment |-> "neutral"]

\* interim results only: finalText is '' and avgConfidence is 0
SpeechInterimOnly ==
    [defined |-> TRUE, transcription |-> "", confidence |-> 0,
     language |-> "English", wordCount |-> 1, keywords |-> <<>>,
     sentiment |-> "neutral"]

SpeechClear ==
    [defined |-> TRUE, transcription |-> "good morning", confidence |-> 950,
     language |-> "English", wordCount |-> 2, keywords |-> <<"good", "morning">>,
     sentiment |-> "positive"]

\* SpeechRecognitionService.analyzeAudioFile: rejects ('No speech detected in
\* audio', recognition errors) or resolves with a SpeechAnalysisResult
SpeechOutcomes ==
    {Rejected("No speech detected in audio"), Fulfilled(SpeechHello)}

CatMeowing ==
    [label |-> "Cat Meowing", confidence |-> 900, category |-> "animal",
     description |-> "Feline vocalization detected"]

ShortAudioClip ==
    [label |-> "Short Audio Clip", confidence |-> 700, category |-> "other",
     description |-> "Brief audio segment"]

\* determineAudioType of {animal, other} is 'mixed'
AnimalAnalysis ==
    [defined |-> TRUE,
     primaryClassification |-> CatMeowing,
     secondaryClassifications |-> <<ShortAudioClip>>,
     overallConfidence |-> 800,
     detectedCategories |-> {"animal", "other"},
     audioType |-> "mixed"]

LongAudioContent ==
    [label |-> "Long Audio Content", confidence |-> 800, category |-> "other",
     description |-> "Extended audio content"]

OfficeEnvironment ==
    [label |-> "Office Environment", confidence |-> 770, category |-> "environmental",
     description |-> "Indoor office sounds"]

StandardAudio ==
    [label |-> "Standard Audio", confidence |-> 650, category |-> "other",
     description |-> "Standard audio quality"]

\* determineAudioType of {other, environmental} is 'environmental'
LongAudioAnalysis ==
    [defined |-> TRUE,
     primaryClassification |-> LongAudioContent,
     secondaryClassifications |-> <<OfficeEnvironment, StandardAudio>>,
     overallConfidence |-> 740,
     detectedCategories |-> {"other", "environmental"},
     audioType |-> "environmental"]

HumanSpeech ==
    [label |-> "Human Speech", confidence |-> 920, category |-> "speech",
     description |-> "Human vocal communication"]

\* determineAudioType of {speech, other} is 'speech'
SpeechTypeAnalysis ==
    [defined |-> TRUE,
     primaryClassification |-> HumanSpeech,
     secondaryClassifications |-> <<ShortAudioClip>>,
     overallConfidence |-> 810,
     detectedCategories |-> {"speech", "other"},
     audioType |-> "speech"]

\* AudioClassificationService.classifyAudio never rejects: it resolves with a
\* ranked analysis or with its own fallback analysis
ClassificationOutcomes ==
    {Fulfilled(CreateFallbackClassification), Fulfilled(AnimalAnalysis)}

\* what extractFeatures returns for a tone and for silence where the analyser
\* reports -Infinity
ToneFeatures == ExtractFeatures(ToneBuffer, 44100, NegativeInfinity)

SilenceFeatures == ExtractFeatures(SilentBuffer, 44100, NegativeInfinity)

\* what extractFeatures can return
ExtractedFeatures ==
    {ExtractFeatures(channelData, 44100, level) :
        channelData \in {SilentBuffer, ToneBuffer, OneSampleBuffer},
        level \in SilentLevels}

\* AudioAnalyzer.analyzeAudio: rejects (decodeAudioData failure) or resolves
\* with the features; its 'Analysis timeout' never wins the race
SpectralOutcomes ==
    {Rejected("decode")} \cup {Fulfilled(features) : features \in ExtractedFeatures}

Thunder ==
    [defined |-> TRUE, label |-> "Thunder", confidence |-> 850,
     category |-> "environmental", description |-> "Thunder and lightning sounds",
     tags |-> <<"thunder", "lightning", "storm", "weather">>]

TensorFlowThunder ==
    [defined |-> TRUE, primaryRecognition |-> Thunder, overallConfidence |-> 850,
     modelUsed |-> "TensorFlow.js Audio Classifier"]

Rain ==
    [defined |-> TRUE, label |-> "Rain", confidence |-> 800,
     category |-> "environmental", description |-> "Rain and water sounds",
     tags |-> <<"rain", "water", "weather", "ambient">>]

TensorFlowRain ==
    [defined |-> TRUE, primaryRecognition |-> Rain, overallConfidence |-> 800,
     modelUsed |-> "TensorFlow.js Audio Classifier"]

\* TensorFlowAudioRecognitionService.analyzeAudio with an empty ranked list
\* (no prediction above 0.1): results[0] is undefined and 0/0 is NaN
TensorFlowEmpty ==
    [defined |-> TRUE, primaryRecognition |-> Undefined, overallConfidence |-> NaN,
     modelUsed |-> "TensorFlow.js Audio Classifier"]

\* the features of silence are all 0 and are divided by their maximum: where
\* 0 / 0 is NaN every prediction is NaN and no category passes '> 0.1'; where
\* the backend's division gives 1 for equal operands the untrained model
\* ranks some category
TensorFlowUntrained ==
    [defined |-> TRUE,
     primaryRecognition |-> [Rain EXCEPT !.confidence = 300],
     overallConfidence |-> 300,
     modelUsed |-> "TensorFlow.js Audio Classifier"]

\* analyzeAudio over getFallbackResults()
TensorFlowFallback ==
    [defined |-> TRUE,
     primaryRecognition |->
        [defined |-> TRUE, label |-> "Audio Content", confidence |-> 500,
         category |-> "other", description |-> "General audio content detected",
         tags |-> <<"audio", "content", "general">>],
     overallConfidence |-> 500,
     modelUsed |-> "TensorFlow.js Audio Classifier"]

TensorFlowOutcomes ==
    {Rejected("decode"), Fulfilled(TensorFlowThunder), Fulfilled(TensorFlowEmpty)}

---------------------------------------------------------------------------
(* AudioClassificationService.classifyAudio: three classifiers dispatched    *)
(* together, joined by Promise.allSettled, then ranked.                      *)

\* null, as a classifier resolves with when it has nothing to say
Null == [defined |-> FALSE, null |-> TRUE]

\* the classifiers in the order of the array given to Promise.allSettled:
\* classifyWithHuggingFace, classifyWithAudioFeatures, classifyWithPatternMatching
Slots == 1..3

SingingVoice ==
    [label |-> "Singing Voice", confidence |-> 900, category |-> "speech",
     description |-> "Human vocal performance"]

RockMusic ==
    [label |-> "Rock Music", confidence |-> 870, category |-> "music",
     description |-> "Rock genre musical content"]

\* 'Office Environment' with the least random addition: 0.74 + 0.01
OfficeEnvironmentLow ==
    [label |-> "Office Environment", confidence |-> 750, category |-> "environmental",
     description |-> "Indoor office sounds"]

MediumAudio ==
    [label |-> "Medium Audio", confidence |-> 600, category |-> "other",
     description |-> "Standard audio length"]

HighQualityAudio ==
    [label |-> "High Quality Audio", confidence |-> 750, category |-> "music",
     description |-> "High bitrate audio content"]

\* classifyWithHuggingFace: one of the mock results, its confidence moved by a
\* random addition and capped at 0.95
HuggingFaceResults == {CatMeowing, SingingVoice, RockMusic, OfficeEnvironmentLow}

\* classifyWithAudioFeatures, onloadedmetadata: by the duration in seconds
ClassifyByDuration(duration) ==
    IF duration < 5 THEN ShortAudioClip
    ELSE IF duration > 60 THEN LongAudioContent
    ELSE MediumAudio

FiveMegabytes == 5 * 1024 * 1024

\* classifyWithPatternMatching: by the blob's type and size
ClassifyWithPatternMatching(blob) ==
    IF blob.typeIncludesAudio
    THEN IF blob.size > FiveMegabytes THEN HighQualityAudio ELSE StandardAudio
    ELSE Null

\* createFallbackClassification of the service
ServiceFallbackClassification ==
    [defined |-> TRUE,
     primaryClassification |->
        [label |-> "Audio Content", confidence |-> 500, category |-> "other",
         description |-> "General audio content detected"],
     secondaryClassifications |-> <<>>,
     overallConfidence |-> 500,
     detectedCategories |-> {"other"},
     audioType |-> "mixed"]

\* a validity test that also drops results of confidence 0.6 and below
IsValid_DropsLowConfidence(outcome) ==
    outcome.status = "fulfilled" /\ outcome.value # Null
       /\ outcome.value.confidence > 600

\* result.status === 'fulfilled' && result.value
IsValid(outcome) == outcome.status = "fulfilled" /\ outcome.value # Null

\* classifications.forEach(... validClassifications.push(result.value))
RECURSIVE ValidClassifications(_)
ValidClassifications(outcomes) ==
    IF outcomes = <<>> THEN <<>>
    ELSE (IF IsValid(Head(outcomes)) THEN <<Head(outcomes).value>> ELSE <<>>)
         \o ValidClassifications(Tail(outcomes))

\* the place of x in a list sorted so far, behind every element of the same or
\* a greater confidence
RECURSIVE InsertByConfidence(_, _)
\* the place of x before the elements of the same confidence
InsertByConfidence_BeforeEqual(x, sorted) ==
    IF sorted = <<>> THEN <<x>>
    ELSE IF Head(sorted).confidence > x.confidence
         THEN <<Head(sorted)>> \o InsertByConfidence(x, Tail(sorted))
         ELSE <<x>> \o sorted

InsertByConfidence(x, sorted) ==
    IF sorted = <<>> THEN <<x>>
    ELSE IF Head(sorted).confidence >= x.confidence
         THEN <<Head(sorted)>> \o InsertByConfidence(x, Tail(sorted))
         ELSE <<x>> \o sorted

\* validClassifications.sort((a, b) => b.confidence - a.confidence): Array.sort
\* is stable, so elements that compare equal keep their order
RECURSIVE SortByConfidence(_)
SortByConfidence(list) ==
    IF list = <<>> THEN <<>>
    ELSE InsertByConfidence(list[Len(list)],
                            SortByConfidence(SubSeq(list, 1, Len(list) - 1)))

\* Array.prototype.slice(from, to) with 0-based bounds
Slice(list, from, to) ==
    IF from >= Len(list) THEN <<>> ELSE SubSeq(list, from + 1, Min(to, Len(list)))

Categories(list) == {list[i].category : i \in 1..Len(list)}

\* determineAudioType with 'speech' tested first
DetermineAudioType_SpeechFirst(list) ==
    IF "speech" \in Categories(list) THEN "speech"
    ELSE IF "music" \in Categories(list) THEN "music"
    ELSE IF "environmental" \in Categories(list) THEN "environmental"
    ELSE "mixed"

DetermineAudioType(list) ==
    IF "music" \in Categories(list) THEN "music"
    ELSE IF "speech" \in Categories(list) THEN "speech"
    ELSE IF "environmental" \in Categories(list) THEN "environmental"
    ELSE "mixed"

RECURSIVE SumOfConfidences(_)
SumOfConfidences(list) ==
    IF list = <<>> THEN 0
    ELSE Head(list).confidence + SumOfConfidences(Tail(list))

\* the mean over the primary and the first secondary only
OverallConfidence_TopTwo(list) ==
    SumOfConfidences(SubSeq(list, 1, Min(2, Len(list)))) \div Min(2, Len(list))

\* reduce((sum, c) => sum + c.confidence, 0) / length.  The sample confidences
\* are multiples of 6 thousandths wherever three results are valid, and of 2
\* wherever two are, so the division is exact.
OverallConfidence(list) == SumOfConfidences(list) \div Len(list)

\* validClassifications kept from one aggregation to the next instead of being
\* a fresh array of each call
Aggregate_Accumulating(outcomes) ==
    LET kept == IF classify.pc = "returned"
                THEN ValidClassifications(classify.joined)
                ELSE <<>>
        valid == kept \o ValidClassifications(outcomes)
    IN IF Len(valid) = 0
       THEN ServiceFallbackClassification
       ELSE LET sorted == SortByConfidence(valid)
            IN [defined |-> TRUE,
                primaryClassification |-> sorted[1],
                secondaryClassifications |-> Slice(sorted, 1, 3),
                overallConfidence |-> OverallConfidence(sorted),
                detectedCategories |-> Categories(sorted),
                audioType |-> DetermineAudioType(sorted)]

\* classifyAudio from the array Promise.allSettled resolved with to its return
Aggregate(outcomes) ==
    LET valid == ValidClassifications(outcomes)
    IN IF Len(valid) = 0
       THEN ServiceFallbackClassification
       ELSE LET sorted == SortByConfidence(valid)
            IN [defined |-> TRUE,
                primaryClassification |-> sorted[1],
                secondaryClassifications |-> Slice(sorted, 1, 3),
                overallConfidence |-> OverallConfidence(sorted),
                detectedCategories |-> Categories(sorted),
                audioType |-> DetermineAudioType(sorted)]

Idle == [state |-> "idle"]
Pending == [state |-> "pending"]
Stalled == [state |-> "stalled"]
Settled(outcome) ==
    IF outcome.status = "fulfilled"
    THEN [state |-> "settled", status |-> "fulfilled", value |-> outcome.value]
    ELSE [state |-> "settled", status |-> "rejected", reason |-> outcome.reason]

ClassifyIdle ==
    [pc |-> "idle", blob |-> Undefined, result |-> Undefined, joined |-> <<>>,
     again |-> Undefined]
ClassifiersIdle == [s \in Slots |-> Idle]

AllSettled == \A s \in Slots : classifiers[s].state = "settled"

\* classifyAudio(audioBlob) up to 'await Promise.allSettled([...])': the three
\* classifiers are called one after the other with no await in between.
\* classifyWithPatternMatching has no await: its promise is settled on return.
ClassifyAudio(blob) ==
    /\ classify.pc = "idle"
    /\ classify' = [classify EXCEPT !.pc = "awaiting", !.blob = blob]
    /\ classifiers' = [s \in Slots |->
                         IF s = 3
                         THEN Settled(Fulfilled(ClassifyWithPatternMatching(blob)))
                         ELSE Pending]
    /\ UNCHANGED <<engineVars, call, combineIn, combineOut, analyzer, unitVars, componentVars>>

\* classifyWithHuggingFace: the 1000 ms timer fires and a mock result is drawn
HuggingFaceSettles(result) ==
    /\ classifiers[1].state = "pending"
    /\ classifiers' = [classifiers EXCEPT ![1] = Settled(Fulfilled(result))]
    /\ UNCHANGED <<engineVars, call, combineIn, combineOut, classify, analyzer, unitVars,
                   componentVars>>

\* classifyWithAudioFeatures: audio.onloadedmetadata
MetadataLoaded ==
    /\ classifiers[2].state = "pending"
    /\ classifiers' = [classifiers EXCEPT
            ![2] = Settled(Fulfilled(ClassifyByDuration(classify.blob.duration)))]
    /\ UNCHANGED <<engineVars, call, combineIn, combineOut, classify, analyzer, unitVars,
                   componentVars>>

\* classifyWithAudioFeatures: audio.onerror
MediaError ==
    /\ classifiers[2].state = "pending"
    /\ classifiers' = [classifiers EXCEPT ![2] = Settled(Fulfilled(Null))]
    /\ UNCHANGED <<engineVars, call, combineIn, combineOut, classify, analyzer, unitVars,
                   componentVars>>

\* the media element does not fetch (preload withheld by the browser): neither
\* loadedmetadata nor error will fire, and nothing else resolves the promise
MediaStalls ==
    /\ classifiers[2].state = "pending"
    /\ classifiers' = [classifiers EXCEPT ![2] = Stalled]
    /\ UNCHANGED <<engineVars, call, combineIn, combineOut, classify, analyzer, unitVars,
                   componentVars>>

\* the join resuming on the first settled classifier
AllSettledResumes_OnFirst ==
    /\ classify.pc = "awaiting"
    /\ \E s \in Slots : classifiers[s].state = "settled"
    /\ classify' = [classify EXCEPT
            !.pc = "returned",
            !.joined = classifiers,
            !.result = Aggregate([s \in Slots |->
                          IF classifiers[s].state = "settled" THEN classifiers[s]
                          ELSE [status |-> "rejected"]])]
    /\ UNCHANGED <<engineVars, call, combineIn, combineOut, classifiers, analyzer, unitVars,
                   componentVars>>

\* 'await Promise.allSettled([...])' resumes; classifyAudio ranks and returns
AllSettledResumes ==
    /\ classify.pc = "awaiting"
    /\ AllSettled
    /\ classify' = [classify EXCEPT
            !.pc = "returned",
            !.joined = classifiers,
            !.result = Aggregate(classifiers)]
    /\ UNCHANGED <<engineVars, call, combineIn, combineOut, classifiers, analyzer, unitVars,
                   componentVars>>

\* the ranking of classifyAudio evaluated once more on the array the call
\* before was resolved with
AggregateAgain ==
    /\ classify.pc = "returned"
    /\ classify' = [classify EXCEPT
            !.pc = "aggregated again",
            !.again = Aggregate(classify.joined)]
    /\ UNCHANGED <<engineVars, call, combineIn, combineOut, classifiers, analyzer, unitVars,
                   componentVars>>

---------------------------------------------------------------------------
(* AudioAnalyzer.analyzeAudio (the version with the Promise.race timeout).   *)
(* One analyzer serves every call of the engine, so the timers of earlier    *)
(* calls are followed too.  elapsed and the timers' ages are in ms.          *)

AnalysisTimeout == 10000
MaxAnalyses == 3
ClockStep == 2500

\* how long the computation of extractFeatures occupies the thread
ExtractionDurations == {2500, 12500}

AnalyzerIdle ==
    [pc |-> "idle", calls |-> 0, sourceConnected |-> FALSE, timers |-> <<>>,
     took |-> 0, result |-> Undefined, error |-> "none"]

\* the event loop is free to run timer callbacks: analyzeAudio is not in the
\* middle of its synchronous and microtask work
EventLoopFree == analyzer.pc # "racing"

\* analyzeAudio(audioBlob) up to 'await this.audioContext.decodeAudioData'
AnalyzeAudio ==
    /\ analyzer.pc \in {"idle", "returned", "failed"}
    /\ analyzer.calls < MaxAnalyses
    /\ analyzer' = [analyzer EXCEPT !.pc = "decoding", !.calls = @ + 1, !.took = 0,
                                    !.result = Undefined, !.error = "none"]
    /\ UNCHANGED <<engineVars, call, combineIn, combineOut, classify, classifiers, unitVars,
                   componentVars>>

\* decodeAudioData rejects: the catch block logs and rethrows
DecodeFails ==
    /\ analyzer.pc = "decoding"
    /\ analyzer' = [analyzer EXCEPT !.pc = "failed", !.error = "decode"]
    /\ UNCHANGED <<engineVars, call, combineIn, combineOut, classify, classifiers, unitVars,
                   componentVars>>

\* decodeAudioData resolves: the analyser and the buffer source are created and
\* connected, extractFeatures is called and runs to its await, the 10 s timer is
\* armed, and the race is awaited
DecodeSucceeds ==
    /\ analyzer.pc = "decoding"
    /\ analyzer' = [analyzer EXCEPT !.pc = "racing", !.sourceConnected = TRUE,
                                    !.timers = Append(@, 0)]
    /\ UNCHANGED <<engineVars, call, combineIn, combineOut, classify, classifiers, unitVars,
                   componentVars>>

AgeBy(timers, ms) == [i \in 1..Len(timers) |-> Min(timers[i] + ms, AnalysisTimeout)]

\* the rest of extractFeatures runs as a microtask, whatever time it takes, and
\* resolves the race before any timer callback can run; then source.disconnect()
\* and the return.  The timer is not cleared.
ExtractionCompletes(duration, features) ==
    /\ analyzer.pc = "racing"
    /\ analyzer' = [analyzer EXCEPT !.pc = "returned", !.sourceConnected = FALSE,
                                    !.took = duration, !.result = features,
                                    !.timers = AgeBy(@, duration)]
    /\ UNCHANGED <<engineVars, call, combineIn, combineOut, classify, classifiers, unitVars,
                   componentVars>>

\* a timer whose 10 s are over fires: it rejects a promise whose race is settled
TimerFires ==
    /\ EventLoopFree
    /\ Len(analyzer.timers) > 0
    /\ analyzer.timers[1] >= AnalysisTimeout
    /\ analyzer' = [analyzer EXCEPT !.timers = Tail(@)]
    /\ UNCHANGED <<engineVars, call, combineIn, combineOut, classify, classifiers, unitVars,
                   componentVars>>

\* time passes while timers are pending; a timer that is due fires first
AnalyzerTimePasses ==
    /\ EventLoopFree
    /\ Len(analyzer.timers) > 0
    /\ analyzer.timers[1] < AnalysisTimeout
    /\ analyzer' = [analyzer EXCEPT !.timers = AgeBy(@, ClockStep)]
    /\ UNCHANGED <<engineVars, call, combineIn, combineOut, classify, classifiers, unitVars,
                   componentVars>>

---------------------------------------------------------------------------
(* SpeechRecognitionService: one SpeechRecognition object, its handlers,     *)
(* startRecognition, stopRecognition and analyzeAudioFile.  Callers are the  *)
(* analyzeAudioFile calls; times are in ms, durations in seconds.            *)

Callers == 1..2

\* how many results of a session are followed
MaxSpeechResults == 2

SpeechClockStep == 1000

\* audio.duration of the blobs analysed, in seconds
BlobDurations == {10, 40}

FileIdle ==
    [pc |-> "idle", blobDuration |-> 0, duration |-> 0, delay |-> 0, elapsed |-> 0,
     results |-> 0, settlement |-> "none", reason |-> "none"]

\* the last startRecognition call: who made it, whether a session was active
\* when it was made, the callbacks held before and after, what it returned
\* and whose onError it called
NoStart ==
    [caller |-> 0, sessionActive |-> FALSE, before |-> <<0, 0>>, after |-> <<0, 0>>,
     returned |-> FALSE, reported |-> 0]

RecognitionIdle ==
    [isListening |-> FALSE, session |-> "inactive",
     onResultCallback |-> 0, onErrorCallback |-> 0,
     files |-> [k \in Callers |-> FileIdle],
     lastStart |-> NoStart]

\* the SpeechRecognition object is between start() and its end event
SessionActive(r) == r.session # "inactive"

\* reject(...) of the promise of call k: a settled promise stays as it is
Reject(r, k, reason) ==
    IF r.files[k].settlement = "none"
    THEN [r EXCEPT !.files[k].settlement = "rejected", !.files[k].reason = reason]
    ELSE r

\* resolve(...) of the promise of call k
Resolve(r, k) ==
    IF r.files[k].settlement = "none"
    THEN [r EXCEPT !.files[k].settlement = "resolved"]
    ELSE r

\* startRecognition(onResult, onError) called by analyzeAudioFile call k, whose
\* onError rejects its promise.  recognition.start() throws on an object that
\* has been started and has not ended.
StartRecognition(r, k) ==
    LET note == [caller |-> k, sessionActive |-> SessionActive(r),
                 before |-> <<r.onResultCallback, r.onErrorCallback>>]
    IN IF r.isListening
       THEN [Reject(r, k, "already active") EXCEPT
                !.lastStart = note @@ [after |-> <<r.onResultCallback, r.onErrorCallback>>,
                                       returned |-> FALSE, reported |-> k]]
       ELSE LET stored == [r EXCEPT !.onResultCallback = k, !.onErrorCallback = k]
            IN IF SessionActive(r)
               THEN [Reject(stored, k, "Failed to start") EXCEPT
                        !.lastStart = note @@ [after |-> <<k, k>>, returned |-> FALSE,
                                               reported |-> k]]
               ELSE [stored EXCEPT
                        !.session = "starting",
                        !.lastStart = note @@ [after |-> <<k, k>>, returned |-> TRUE,
                                               reported |-> 0]]

\* stopRecognition
StopRecognition(r) ==
    IF r.isListening
    THEN [r EXCEPT !.session = IF @ = "listening" THEN "stopping" ELSE @]
    ELSE r

\* the delay given to setTimeout: Math.min(duration * 1000 + 2000, 30000), of
\* the duration in seconds
StopDelay(duration) == Min(duration * 1000 + 2000, 30000)

\* the delay analyzeAudioFile arms its timer with: the expression is evaluated
\* when setTimeout is called, with the local variable 'duration' as it is then
ArmedDelay(r, k) == StopDelay(r.files[k].duration)

\* analyzeAudioFile(audioBlob) to the end of the promise executor: the Audio
\* element is created, recognition is started and the stop timer is armed
AnalyzeAudioFile(k, blobDuration) ==
    /\ recognition.files[k].pc = "idle"
    /\ LET created == [recognition EXCEPT
                          !.files[k].blobDuration = blobDuration,
                          !.files[k].duration = 0]
           started == StartRecognition(created, k)
       IN recognition' =
            IF started.lastStart.returned
            THEN [started EXCEPT !.files[k].pc = "waiting",
                                 !.files[k].delay = ArmedDelay(started, k)]
            ELSE [Reject(started, k, "Failed to start") EXCEPT
                     !.files[k].pc = "returned"]
    /\ UNCHANGED <<engineVars, call, combineIn, combineOut, serviceVars, extract, loader,
                   componentVars>>

\* audio.onloadedmetadata: duration = audio.duration
AudioMetadataLoaded(k) ==
    /\ recognition.files[k].pc \in {"waiting", "returned", "stopped"}
    /\ recognition.files[k].duration # recognition.files[k].blobDuration
    /\ recognition' = [recognition EXCEPT
            !.files[k].duration = recognition.files[k].blobDuration]
    /\ UNCHANGED <<engineVars, call, combineIn, combineOut, serviceVars, extract, loader,
                   componentVars>>

\* recognition.onstart
OnStart ==
    /\ recognition.session = "starting"
    /\ recognition' = [recognition EXCEPT !.session = "listening", !.isListening = TRUE]
    /\ UNCHANGED <<engineVars, call, combineIn, combineOut, serviceVars, extract, loader,
                   componentVars>>

\* recognition.onresult: the registered onResult pushes to its call's results
OnResult ==
    /\ recognition.session = "listening"
    /\ recognition.onResultCallback # 0
    /\ recognition.files[recognition.onResultCallback].results < MaxSpeechResults
    /\ recognition' = [recognition EXCEPT
            !.files[recognition.onResultCallback].results = @ + 1]
    /\ UNCHANGED <<engineVars, call, combineIn, combineOut, serviceVars, extract, loader,
                   componentVars>>

\* recognition.onerror: the registered onError rejects its call's promise; the
\* end event follows
OnError ==
    /\ recognition.session \in {"starting", "listening", "stopping"}
    /\ recognition' =
          LET r == [recognition EXCEPT !.isListening = FALSE, !.session = "ending"]
          IN IF r.onErrorCallback # 0
             THEN Reject(r, r.onErrorCallback, "Speech recognition failed")
             ELSE r
    /\ UNCHANGED <<engineVars, call, combineIn, combineOut, serviceVars, extract, loader,
                   componentVars>>

\* recognition.onend
OnEnd ==
    /\ recognition.session \in {"listening", "stopping", "ending"}
    /\ recognition' = [recognition EXCEPT !.isListening = FALSE, !.session = "inactive"]
    /\ UNCHANGED <<engineVars, call, combineIn, combineOut, serviceVars, extract, loader,
                   componentVars>>

\* the stop timer of call k fires: stopRecognition, then reject without
\* results or resolve with the analysis
StopTimerFires(k) ==
    /\ recognition.files[k].pc = "waiting"
    /\ recognition.files[k].elapsed >= recognition.files[k].delay
    /\ recognition' =
          LET r == [StopRecognition(recognition) EXCEPT !.files[k].pc = "stopped"]
          IN IF r.files[k].results = 0
             THEN Reject(r, k, "No speech detected in audio")
             ELSE Resolve(r, k)
    /\ UNCHANGED <<engineVars, call, combineIn, combineOut, serviceVars, extract, loader,
                   componentVars>>

\* time passes for the armed timers; a timer that is due fires first
SpeechTimePasses ==
    /\ \E k \in Callers : recognition.files[k].pc = "waiting"
    /\ \A k \in Callers :
          recognition.files[k].pc = "waiting" =>
              recognition.files[k].elapsed < recognition.files[k].delay
    /\ recognition' = [recognition EXCEPT
            !.files = [k \in Callers |->
                IF recognition.files[k].pc = "waiting"
                THEN [recognition.files[k] EXCEPT
                        !.elapsed = Min(@ + SpeechClockStep, recognition.files[k].delay)]
                ELSE recognition.files[k]]]
    /\ UNCHANGED <<engineVars, call, combineIn, combineOut, serviceVars, extract, loader,
                   componentVars>>

---------------------------------------------------------------------------
(* TensorFlowAudioRecognitionService: loadModel, performModelLoading and     *)
(* dispose.  Promises are numbered in the order performModelLoading returns  *)
(* them; 0 is null.                                                          *)

MaxLoaderCalls == 4

\* the last loadModel call: the state it found and what it did
NoLoad ==
    [loadedBefore |-> FALSE, promiseBefore |-> 0, startedLoad |-> FALSE,
     returned |-> "none"]

LoaderIdle ==
    [model |-> FALSE, isModelLoaded |-> FALSE, modelLoadingPromise |-> 0,
     promises |-> <<>>, calls |-> 0, lastLoad |-> NoLoad,
     pending |-> 0, analyses |-> <<>>]

\* performModelLoading: an async function without an await, so the whole body,
\* its finally block included, has run when the call returns its promise
PerformModelLoading(l, throws) ==
    [l EXCEPT !.model = IF throws THEN @ ELSE TRUE,
              !.isModelLoaded = IF throws THEN @ ELSE TRUE,
              !.modelLoadingPromise = 0,
              !.promises = Append(@, IF throws THEN "rejected" ELSE "fulfilled")]

\* loadModel(); throws tells whether creating the model throws if it is tried.
\* The assignment to modelLoadingPromise is made with the promise
\* performModelLoading returned, after its finally block has run.
LoadModelOn(l, throws) ==
    LET note == [loadedBefore |-> l.isModelLoaded,
                 promiseBefore |-> l.modelLoadingPromise]
    IN IF l.isModelLoaded
       THEN [l EXCEPT !.calls = @ + 1,
                      !.lastLoad = note @@ [startedLoad |-> FALSE,
                                            returned |-> "fulfilled"]]
       ELSE IF l.modelLoadingPromise # 0
       THEN [l EXCEPT !.calls = @ + 1,
                      !.lastLoad = note @@ [startedLoad |-> FALSE,
                                            returned |-> l.promises[l.modelLoadingPromise]]]
       ELSE LET loaded == PerformModelLoading(l, throws)
            IN [loaded EXCEPT
                  !.modelLoadingPromise = Len(loaded.promises),
                  !.calls = @ + 1,
                  !.lastLoad = note @@ [startedLoad |-> TRUE,
                                        returned |-> loaded.promises[Len(loaded.promises)]]]

LoadModel(throws) ==
    /\ loader.calls < MaxLoaderCalls
    /\ loader' = LoadModelOn(loader, throws)
    /\ UNCHANGED <<engineVars, call, combineIn, combineOut, serviceVars, extract,
                   recognition, componentVars>>

\* analyzeAudio(audioBlob) up to its second await: loadModel() is awaited, and
\* a rejected load leaves through the catch, which rethrows
TensorFlowAnalyzeAudio(throws) ==
    /\ loader.calls < MaxLoaderCalls
    /\ LET loaded == LoadModelOn(loader, throws)
       IN loader' =
            IF loaded.lastLoad.returned = "rejected"
            THEN [loaded EXCEPT !.analyses = Append(@, Rejected("load"))]
            ELSE [loaded EXCEPT !.pending = @ + 1]
    /\ UNCHANGED <<engineVars, call, combineIn, combineOut, serviceVars, extract,
                   recognition, componentVars>>

\* the audioCategories table of mapPredictionsToCategories, in its order
AudioCategories ==
    <<[label |-> "Thunder", category |-> "environmental",
       description |-> "Thunder and lightning sounds",
       tags |-> <<"thunder", "lightning", "storm", "weather">>],
      [label |-> "Cat Meowing", category |-> "animal",
       description |-> "Feline vocalization",
       tags |-> <<"cat", "meow", "animal", "pet">>],
      [label |-> "Dog Barking", category |-> "animal",
       description |-> "Canine vocalization",
       tags |-> <<"dog", "bark", "animal", "pet">>],
      [label |-> "Music", category |-> "music",
       description |-> "Musical content",
       tags |-> <<"music", "melody", "rhythm", "harmony">>],
      [label |-> "Human Speech", category |-> "speech",
       description |-> "Human vocal communication",
       tags |-> <<"speech", "human", "voice", "conversation">>],
      [label |-> "Traffic", category |-> "environmental",
       description |-> "Vehicle and traffic sounds",
       tags |-> <<"traffic", "vehicles", "urban", "transport">>],
      [label |-> "Rain", category |-> "environmental",
       description |-> "Rain and water sounds",
       tags |-> <<"rain", "water", "weather", "ambient">>],
      [label |-> "Birds", category |-> "animal",
       description |-> "Bird vocalizations",
       tags |-> <<"birds", "chirping", "animal", "nature">>],
      [label |-> "Applause", category |-> "other",
       description |-> "Clapping and applause sounds",
       tags |-> <<"applause", "clapping", "crowd", "human">>],
      [label |-> "Silence", category |-> "other",
       description |-> "Quiet or silent audio",
       tags |-> <<"silence", "quiet", "ambient", "background">>]>>

\* predictions[i] || 0: NaN and 0 are falsy
OrZero(x) == IF x = NaN THEN 0 ELSE x

\* { ...audioCategories[i], confidence: Math.min(0.95, confidence + 0.1) }
BoostedCategory(i, confidence) ==
    [defined |-> TRUE, label |-> AudioCategories[i].label,
     confidence |-> Min(950, confidence + 100),
     category |-> AudioCategories[i].category,
     description |-> AudioCategories[i].description,
     tags |-> AudioCategories[i].tags]

\* the loop of mapPredictionsToCategories over the first n predictions
RECURSIVE IncludedCategories(_, _)
IncludedCategories(predictions, n) ==
    IF n = 0 THEN <<>>
    ELSE LET confidence == OrZero(predictions[n])
             before == IncludedCategories(predictions, n - 1)
         IN IF confidence > 100
            THEN Append(before, BoostedCategory(n, confidence))
            ELSE before

\* mapPredictionsToCategories: the categories above 0.1, by descending
\* confidence, the first five
MapPredictionsToCategories(predictions) ==
    Slice(SortByConfidence(
              IncludedCategories(predictions,
                                 Min(Len(predictions), Len(AudioCategories)))),
          0, 5)

\* the object analyzeAudio returns over the ranked list: results[0] of an
\* empty list is undefined and its mean is 0 / 0
TensorFlowAnalysisOf(results) ==
    [defined |-> TRUE,
     primaryRecognition |-> IF results = <<>> THEN Undefined ELSE results[1],
     overallConfidence |->
        IF results = <<>> THEN NaN ELSE SumOfConfidences(results) \div Len(results),
     modelUsed |-> "TensorFlow.js Audio Classifier"]

\* prediction vectors of the softmax layer, in thousandths
NaNPredictions == [i \in 1..10 |-> NaN]
UniformPredictions == [i \in 1..10 |-> 100]
RainPredictions == [i \in 1..10 |-> IF i = 7 THEN 200 ELSE IF i = 10 THEN 80 ELSE 90]
ThunderPredictions == [i \in 1..10 |-> IF i = 1 THEN 750 ELSE IF i = 7 THEN 70 ELSE 20]

\* model.predict over the normalised features: the features of silence are all
\* 0 and are divided by their maximum, 0 / 0, so every prediction is NaN; an
\* untrained softmax layer may also rank all categories alike or one slightly
\* above the others
Predictions(input) ==
    IF input = "silence"
    THEN {NaNPredictions, UniformPredictions, RainPredictions}
    ELSE {ThunderPredictions}

\* what the rest of analyzeAudio settles with: decodeAudioData may reject;
\* without a model 'this.model!.predict' throws inside classifyAudio, whose
\* catch returns getFallbackResults()
TensorFlowResults(model, input) ==
    IF input = "undecodable" THEN {Rejected("decode")}
    ELSE IF ~model THEN {Fulfilled(TensorFlowFallback)}
    ELSE {Fulfilled(TensorFlowAnalysisOf(MapPredictionsToCategories(predictions))) :
             predictions \in Predictions(input)}

AudioInputs == {"silence", "thunder", "undecodable"}

\* analyzeAudio from extractAudioFeatures to its return
TensorFlowAnalysisSettles(input) ==
    /\ loader.pending > 0
    /\ \E outcome \in TensorFlowResults(loader.model, input) :
          loader' = [loader EXCEPT !.pending = @ - 1,
                                   !.analyses = Append(@, outcome)]
    /\ UNCHANGED <<engineVars, call, combineIn, combineOut, serviceVars, extract,
                   recognition, componentVars>>

\* dispose()
Dispose ==
    /\ loader.model \/ loader.isModelLoaded
    /\ loader' = [loader EXCEPT !.model = FALSE, !.isModelLoaded = FALSE]
    /\ UNCHANGED <<engineVars, call, combineIn, combineOut, serviceVars, extract,
                   recognition, componentVars>>

\* the TensorFlow service after one loadModel call that succeeded
LoaderLoaded == LoadModelOn(LoaderIdle, FALSE)

---------------------------------------------------------------------------
(* AudioVisualizer (the version with an AbortController).  A loadAudio call, *)
(* the AbortController it creates and the WaveSurfer instance it creates     *)
(* share one number; 0 is null.                                              *)

\* how many values the audioUrl prop takes
MaxUrls == 3

VisualizerIdle ==
    [mounted |-> TRUE, audioUrl |-> 1, timeoutId |-> TRUE,
     abortControllerRef |-> 0, aborted |-> {},
     wavesurferRef |-> 0, destroyed |-> {}, listening |-> {},
     loads |-> [l \in 1..MaxUrls |-> "none"],
     isLoading |-> TRUE, error |-> "null",
     staleWrites |-> {}]

\* abortControllerRef.current.abort(), if there is a controller
AbortCurrent(v) ==
    IF v.abortControllerRef # 0 THEN v.aborted \union {v.abortControllerRef}
    ELSE v.aborted

\* wavesurferRef.current.destroy(), if there is an instance
DestroyCurrent(v) ==
    IF v.wavesurferRef # 0 THEN v.destroyed \union {v.wavesurferRef}
    ELSE v.destroyed

\* abortControllerRef.current?.signal.aborted, read when the check runs
CurrentSignalAborted(v) ==
    v.abortControllerRef # 0 /\ v.abortControllerRef \in v.aborted

\* the div carrying waveformRef is rendered only while error is null
WaveformRef(v) == v.mounted /\ v.error = "null"

StartedLoads(v) == {l \in 1..MaxUrls : v.loads[l] # "none"}

\* the audioUrl prop changes: loadAudio is a new callback, the effect's
\* cleanup runs and the effect schedules a new timer
ChangeUrl ==
    /\ visualizer.mounted
    /\ visualizer.audioUrl < MaxUrls
    /\ visualizer' = [visualizer EXCEPT
                        !.audioUrl = @ + 1,
                        !.timeoutId = TRUE,
                        !.aborted = AbortCurrent(visualizer),
                        !.destroyed = DestroyCurrent(visualizer)]
    /\ UNCHANGED <<engineVars, call, combineIn, combineOut, serviceVars, unitVars,
                   processor, recorder>>

\* the 100 ms timer fires: loadAudio up to 'await wavesurfer.load(audioUrl)'
LoadTimerFires ==
    /\ visualizer.mounted
    /\ visualizer.timeoutId
    /\ LET l == Cardinality(StartedLoads(visualizer)) + 1
       IN visualizer' =
            IF ~WaveformRef(visualizer)
            THEN [visualizer EXCEPT !.timeoutId = FALSE]
            ELSE [visualizer EXCEPT
                    !.timeoutId = FALSE,
                    !.aborted = AbortCurrent(visualizer),
                    !.abortControllerRef = l,
                    !.destroyed = DestroyCurrent(visualizer),
                    !.wavesurferRef = l,
                    !.isLoading = TRUE,
                    !.error = "null",
                    !.loads[l] = "loading"]
    /\ UNCHANGED <<engineVars, call, combineIn, combineOut, serviceVars, unitVars,
                   processor, recorder>>

LoadOutcomes == {"resolved", "AbortError", "error"}

\* loadAudio from the settling of 'await wavesurfer.load(audioUrl)' to its
\* end.  The checks read abortControllerRef.current, the controller of the
\* latest loadAudio call, whichever call is running them.
LoadSettles(l, outcome) ==
    /\ visualizer.loads[l] = "loading"
    /\ outcome = "AbortError" => l \in visualizer.destroyed
    /\ LET aborted == CurrentSignalAborted(visualizer)
       IN visualizer' =
            CASE outcome = "resolved" /\ aborted ->
                   [visualizer EXCEPT !.loads[l] = "settled",
                                      !.destroyed = @ \union {l}]
              [] outcome = "resolved" /\ ~aborted ->
                   [visualizer EXCEPT !.loads[l] = "settled",
                                      !.listening = @ \union {l}]
              [] outcome = "AbortError" ->
                   [visualizer EXCEPT !.loads[l] = "settled"]
              [] outcome = "error" /\ aborted ->
                   [visualizer EXCEPT !.loads[l] = "settled"]
              [] outcome = "error" /\ ~aborted ->
                   [visualizer EXCEPT
                      !.loads[l] = "settled",
                      !.error = "Failed to load audio",
                      !.isLoading = FALSE,
                      !.staleWrites = IF l \in visualizer.aborted
                                      THEN @ \union {l} ELSE @]
    /\ UNCHANGED <<engineVars, call, combineIn, combineOut, serviceVars, unitVars,
                   processor, recorder>>

WaveSurferEvents == {"ready", "error"}

\* an instance that has not been destroyed emits 'ready' or 'error' to the
\* handlers loadAudio registered on it
WaveSurferEmits(l, event) ==
    /\ l \in visualizer.listening
    /\ l \notin visualizer.destroyed
    /\ visualizer' =
          IF CurrentSignalAborted(visualizer) THEN visualizer
          ELSE [visualizer EXCEPT
                  !.isLoading = FALSE,
                  !.error = IF event = "error"
                            THEN "Failed to load audio visualization" ELSE @,
                  !.staleWrites = IF l \in visualizer.aborted
                                  THEN @ \union {l} ELSE @]
    /\ UNCHANGED <<engineVars, call, combineIn, combineOut, serviceVars, unitVars,
                   processor, recorder>>

\* the component unmounts: the cleanups of both effects
UnmountVisualizer ==
    /\ visualizer.mounted
    /\ visualizer' = [visualizer EXCEPT
                        !.mounted = FALSE,
                        !.timeoutId = FALSE,
                        !.aborted = AbortCurrent(visualizer),
                        !.destroyed = DestroyCurrent(visualizer)]
    /\ UNCHANGED <<engineVars, call, combineIn, combineOut, serviceVars, unitVars,
                   processor, recorder>>

---------------------------------------------------------------------------
(* RealTimeProcessor.  A startRealTimeAnalysis call, the stream, AudioContext *)
(* and analysis loop it creates share one number; 0 is null.                  *)

\* how many times recording is switched on
MaxStarts == 3

ProcessorIdle ==
    [mounted |-> TRUE, isRecording |-> FALSE, starts |-> 0,
     pending |-> {}, captured |-> [k \in 1..MaxStarts |-> FALSE],
     mediaStreamRef |-> 0, audioContextRef |-> 0, analyserRef |-> 0,
     animationFrameRef |-> 0,
     streams |-> {}, contexts |-> {}, frames |-> {}]

\* stopRealTimeAnalysis: cancels the frame whose handle is in
\* animationFrameRef, stops the tracks of the stream in mediaStreamRef, closes
\* the context in audioContextRef, clears the four refs
StopRealTimeAnalysis(p) ==
    [p EXCEPT !.frames = @ \ {p.animationFrameRef},
              !.animationFrameRef = 0,
              !.streams = @ \ {p.mediaStreamRef},
              !.mediaStreamRef = 0,
              !.contexts = @ \ {p.audioContextRef},
              !.audioContextRef = 0,
              !.analyserRef = 0]

\* startRealTimeAnalysis up to 'await getUserMedia': the callback, and the
\* startAnalysisLoop it closes over, belong to the render with this isRecording
StartRealTimeAnalysis(p, isRecording) ==
    [p EXCEPT !.starts = @ + 1,
              !.pending = @ \union {p.starts + 1},
              !.captured[p.starts + 1] = isRecording]

\* analyze() of loop k: 'if (!isRecording) return' reads the isRecording its
\* startAnalysisLoop was created with; otherwise the next frame is requested
\* and its handle stored
Analyze(p, k) ==
    IF ~p.captured[k] THEN [p EXCEPT !.frames = @ \ {k}]
    ELSE [p EXCEPT !.frames = @ \union {k}, !.animationFrameRef = k]

\* the isRecording prop changes: the effect's cleanup (stop), then the effect
SetRecording(isRecording) ==
    /\ processor.mounted
    /\ processor.isRecording # isRecording
    /\ isRecording => processor.starts < MaxStarts
    /\ LET stopped == [StopRealTimeAnalysis(processor) EXCEPT
                         !.isRecording = isRecording]
       IN processor' = IF isRecording
                       THEN StartRealTimeAnalysis(stopped, isRecording)
                       ELSE StopRealTimeAnalysis(stopped)
    /\ UNCHANGED <<engineVars, call, combineIn, combineOut, serviceVars, unitVars,
                   visualizer, recorder>>

\* getUserMedia resolves: the rest of startRealTimeAnalysis, with the first
\* run of analyze()
GetUserMediaResolves(k) ==
    /\ k \in processor.pending
    /\ processor' =
          Analyze([processor EXCEPT
                     !.pending = @ \ {k},
                     !.streams = @ \union {k},
                     !.mediaStreamRef = k,
                     !.contexts = @ \union {k},
                     !.audioContextRef = k,
                     !.analyserRef = k], k)
    /\ UNCHANGED <<engineVars, call, combineIn, combineOut, serviceVars, unitVars,
                   visualizer, recorder>>

\* getUserMedia rejects: the catch logs the error
GetUserMediaRejects(k) ==
    /\ k \in processor.pending
    /\ processor' = [processor EXCEPT !.pending = @ \ {k}]
    /\ UNCHANGED <<engineVars, call, combineIn, combineOut, serviceVars, unitVars,
                   visualizer, recorder>>

\* a requested animation frame of loop k runs analyze()
AnimationFrame(k) ==
    /\ k \in processor.frames
    /\ processor' = Analyze(processor, k)
    /\ UNCHANGED <<engineVars, call, combineIn, combineOut, serviceVars, unitVars,
                   visualizer, recorder>>

\* the component unmounts: the effect's cleanup
UnmountProcessor ==
    /\ processor.mounted
    /\ processor' = [StopRealTimeAnalysis(processor) EXCEPT !.mounted = FALSE]
    /\ UNCHANGED <<engineVars, call, combineIn, combineOut, serviceVars, unitVars,
                   visualizer, recorder>>

---------------------------------------------------------------------------
(* AudioRecorder: analyzeAudio, deleteAudio and the arrival of a new clip.   *)
(* Clips and analyzeAudio calls are numbered; 0 is null.                     *)

\* how many clips are uploaded or recorded, how many analyzeAudio calls run
MaxClips == 2
MaxRecorderAnalyses == 2

RecorderIdle ==
    [audioData |-> 0, clips |-> 0,
     isAnalyzing |-> FALSE, recognitionProgress |-> 0,
     recognitionResult |-> "", showAdvancedAnalysis |-> FALSE,
     analyses |-> [a \in 1..MaxRecorderAnalyses |-> "none"]]

\* the analyzeAudio calls that have started and not reached the end of their
\* finally block
InFlight(r) ==
    {a \in 1..MaxRecorderAnalyses : r.analyses[a] \notin {"none", "done"}}

\* audio.onloadedmetadata of an upload or of a finished recording
SetAudioData ==
    /\ recorder.clips < MaxClips
    /\ recorder' = [recorder EXCEPT !.clips = @ + 1, !.audioData = recorder.clips + 1]
    /\ UNCHANGED <<engineVars, call, combineIn, combineOut, serviceVars, unitVars,
                   visualizer, processor>>

DeleteAudio ==
    /\ recorder.audioData # 0
    /\ recorder' = [recorder EXCEPT
                      !.audioData = 0,
                      !.recognitionResult = "",
                      !.isAnalyzing = FALSE,
                      !.showAdvancedAnalysis = FALSE,
                      !.recognitionProgress = 0]
    /\ UNCHANGED <<engineVars, call, combineIn, combineOut, serviceVars, unitVars,
                   visualizer, processor>>

\* a click on the button, which is rendered with a clip and disabled while
\* isAnalyzing: analyzeAudio up to 'await checkAIAvailability()'
RecorderAnalyzeAudio ==
    /\ recorder.audioData # 0
    /\ ~recorder.isAnalyzing
    /\ \E a \in 1..MaxRecorderAnalyses :
          /\ recorder.analyses[a] = "none"
          /\ \A b \in 1..(a - 1) : recorder.analyses[b] # "none"
          /\ recorder' = [recorder EXCEPT
                            !.isAnalyzing = TRUE,
                            !.recognitionResult = "",
                            !.recognitionProgress = 0,
                            !.analyses[a] = "availability"]
    /\ UNCHANGED <<engineVars, call, combineIn, combineOut, serviceVars, unitVars,
                   visualizer, processor>>

\* checkAIAvailability settles: unavailable throws into the catch, which
\* writes the message and awaits the fallback analysis
AvailabilitySettles(a, isAvailable) ==
    /\ recorder.analyses[a] = "availability"
    /\ recorder' = IF isAvailable
                   THEN [recorder EXCEPT !.analyses[a] = "recognizing"]
                   ELSE [recorder EXCEPT !.analyses[a] = "fallback",
                                         !.recognitionResult = "error"]
    /\ UNCHANGED <<engineVars, call, combineIn, combineOut, serviceVars, unitVars,
                   visualizer, processor>>

ProgressStages == 1..2

\* recognizeAudio reports progress: setRecognitionProgress(progress)
RecognitionProgressEvent(a, progress) ==
    /\ recorder.analyses[a] = "recognizing"
    /\ recorder' = [recorder EXCEPT !.recognitionProgress = progress]
    /\ UNCHANGED <<engineVars, call, combineIn, combineOut, serviceVars, unitVars,
                   visualizer, processor>>

\* recognizeAudio settles
RecognizeSettles(a, fulfilled) ==
    /\ recorder.analyses[a] = "recognizing"
    /\ recorder' = IF fulfilled
                   THEN [recorder EXCEPT !.analyses[a] = "features",
                                         !.recognitionResult = "summary"]
                   ELSE [recorder EXCEPT !.analyses[a] = "fallback",
                                         !.recognitionResult = "error"]
    /\ UNCHANGED <<engineVars, call, combineIn, combineOut, serviceVars, unitVars,
                   visualizer, processor>>

\* the finally block
AnalysisEnds(r, a) ==
    [r EXCEPT !.analyses[a] = "done", !.isAnalyzing = FALSE,
              !.recognitionProgress = 0]

\* audioAnalyzerRef.current.analyzeAudio settles, in the try block or in the
\* catch block's fallback
FeaturesSettle(a, fulfilled) ==
    /\ recorder.analyses[a] \in {"features", "fallback"}
    /\ recorder' =
          IF fulfilled
          THEN AnalysisEnds([recorder EXCEPT !.showAdvancedAnalysis = TRUE], a)
          ELSE IF recorder.analyses[a] = "features"
               THEN [recorder EXCEPT !.analyses[a] = "fallback",
                                     !.recognitionResult = "error"]
               ELSE AnalysisEnds(recorder, a)
    /\ UNCHANGED <<engineVars, call, combineIn, combineOut, serviceVars, unitVars,
                   visualizer, processor>>

\* the three components after their first render
ComponentsIdle ==
    /\ visualizer = VisualizerIdle
    /\ processor = ProcessorIdle
    /\ recorder = RecorderIdle

\* the units as they are when the engine has been constructed, or, in an
\* engine whose initialization has succeeded, after its loadModel call
UnitsIdle ==
    /\ extract = ExtractIdle
    /\ recognition = RecognitionIdle
    /\ loader = IF isModelLoaded THEN LoaderLoaded ELSE LoaderIdle
    /\ ComponentsIdle

---------------------------------------------------------------------------
(* RecognitionProgress events of recognizeAudio *)

InitializingEvent == [stage |-> "initializing", progress |-> 10]
SpeechEvent == [stage |-> "speech", progress |-> 20]
\* the 'classification' and 'spectral' stage names exchanged
ClassificationEvent_AsSpectral == [stage |-> "spectral", progress |-> 35]
ClassificationEvent == [stage |-> "classification", progress |-> 35]
\* a progress value below the one before it
SpectralEvent_Progress30 == [stage |-> "spectral", progress |-> 30]
SpectralEvent == [stage |-> "spectral", progress |-> 50]
TensorFlowEvent == [stage |-> "tensorflow", progress |-> 70]
CombiningEvent == [stage |-> "combining", progress |-> 90]
CompleteEvent == [stage |-> "complete", progress |-> 100]

---------------------------------------------------------------------------
(* The engine *)

NoCall ==
    [pc |-> "idle", waited |-> 0, sleepUntil |-> 0, awaiting |-> 0,
     events |-> <<>>, speechAnalysis |-> Undefined,
     audioClassification |-> Undefined, spectralFeatures |-> Undefined,
     tensorFlowAnalysis |-> Undefined, failedSteps |-> {},
     result |-> Undefined, error |-> "none"]

Calls == DOMAIN call

\* new AIRecognitionEngine(): the constructor has called initializeServices(),
\* which ran performInitialization up to its first await
Constructed(calls) ==
    /\ speechService = FALSE
    /\ classificationService = FALSE
    /\ audioAnalyzer = FALSE
    /\ isModelLoaded = FALSE
    /\ isInitializing = TRUE
    /\ initializationPromise = 1
    /\ initRuns = [r \in Runs |-> IF r = 1 THEN "importing" ELSE "none"]
    /\ constructions = 0
    /\ initFailures = 0
    /\ call = [c \in calls |-> NoCall]
    /\ combineIn = Undefined
    /\ combineOut = Undefined
    /\ classify = ClassifyIdle
    /\ classifiers = ClassifiersIdle
    /\ analyzer = AnalyzerIdle
    /\ UnitsIdle

Init == Constructed(OneCall)

InWait(c) == call[c].pc \in {"wait_sleep", "wait_init"}

RunsInFlight == {r \in Runs : initRuns[r] = "importing"}

\* isAIAvailable / the readiness test of waitForServicesWithTimeout
ServicesReady ==
    speechService /\ classificationService /\ audioAnalyzer /\ isModelLoaded

\* initializeServices without 'this.isInitializing = true'
InitializeServices_NoFlag ==
    /\ \E r \in Runs :
          /\ initRuns[r] = "none"
          /\ \A q \in Runs : q < r => initRuns[q] # "none"
          /\ initRuns' = [initRuns EXCEPT ![r] = "importing"]
          /\ initializationPromise' = r
    /\ UNCHANGED <<speechService, classificationService, audioAnalyzer,
                   isModelLoaded, isInitializing, constructions, initFailures,
                   componentVars>>

\* initializeServices: the promise it returns is initializationPromise'
InitializeServices ==
    IF isInitializing
    THEN UNCHANGED engineVars
    ELSE /\ \E r \in Runs :
              /\ initRuns[r] = "none"
              /\ \A q \in Runs : q < r => initRuns[q] # "none"
              /\ initRuns' = [initRuns EXCEPT ![r] = "importing"]
              /\ initializationPromise' = r
         /\ isInitializing' = TRUE
         /\ UNCHANGED <<speechService, classificationService, audioAnalyzer,
                        isModelLoaded, constructions, initFailures, componentVars>>

\* performInitialization from the resolution (or rejection) of the dynamic
\* imports to its finally block.  The engine's one tensorFlowService is asked
\* to loadModel(), which runs performModelLoading, which has no await of its
\* own: the run ends well if the promise it gets is fulfilled.
PerformInitialization(r, outcome) ==
    /\ initRuns[r] = "importing"
    /\ outcome # "ok" => initFailures < MaxInitFailures
    /\ outcome = "ok" => LoadModelOn(loader, FALSE).lastLoad.returned = "fulfilled"
    /\ outcome = "loadFail" => LoadModelOn(loader, TRUE).lastLoad.returned = "rejected"
    /\ loader' = CASE outcome = "ok" -> LoadModelOn(loader, FALSE)
                   [] outcome = "loadFail" -> LoadModelOn(loader, TRUE)
                   [] OTHER -> loader
    /\ speechService' = (speechService \/ outcome # "importFail")
    /\ classificationService' = (classificationService \/ outcome # "importFail")
    /\ audioAnalyzer' = (audioAnalyzer \/ outcome \in {"loadFail", "ok"})
    /\ isModelLoaded' = loader'.isModelLoaded
    /\ constructions' = IF outcome = "importFail" THEN constructions
                        ELSE constructions + 1
    /\ initFailures' = IF outcome = "ok" THEN initFailures ELSE initFailures + 1
    /\ isInitializing' = FALSE
    /\ initRuns' = [initRuns EXCEPT ![r] = "done"]
    /\ UNCHANGED <<initializationPromise, call, combineIn, combineOut, serviceVars,
                   extract, recognition, componentVars>>

---------------------------------------------------------------------------
(* recognizeAudio.  Each action runs the code from one resumption to the     *)
(* next await; rec is the call's locals.                                     *)

\* onProgress?.(event)
Emit(rec, event) == [rec EXCEPT !.events = Append(@, event)]

\* the 'complete' event emitted before combineResults has run
Finish_CompleteFirst(rec) ==
    LET r == Emit(Emit(rec, CombiningEvent), CompleteEvent)
        res == CombineResults(r.speechAnalysis, r.audioClassification,
                              r.spectralFeatures, r.tensorFlowAnalysis)
    IN IF res.threw
       THEN [r EXCEPT !.pc = "failed", !.error = res.error]
       ELSE [r EXCEPT !.pc = "done", !.result = res]

\* 'combining' event, combineResults, 'complete' event, return; a throw of
\* combineResults leaves through the outer catch, which rethrows
Finish(rec) ==
    LET r == Emit(rec, CombiningEvent)
        res == CombineResults(r.speechAnalysis, r.audioClassification,
                              r.spectralFeatures, r.tensorFlowAnalysis)
    IN IF res.threw
       THEN [r EXCEPT !.pc = "failed", !.error = res.error]
       ELSE [Emit(r, CompleteEvent) EXCEPT !.pc = "done", !.result = res]

\* 'tensorflow' event; analyzeAudio is awaited only if the service isReady()
StartTensorFlow(rec) ==
    LET r == Emit(rec, TensorFlowEvent)
    IN IF isModelLoaded THEN [r EXCEPT !.pc = "tensorflow"] ELSE Finish(r)

\* 'spectral' event; without an analyzer the throw is caught at once
StartSpectral(rec) ==
    LET r == Emit(rec, SpectralEvent)
    IN IF audioAnalyzer
       THEN [r EXCEPT !.pc = "spectral"]
       ELSE StartTensorFlow([r EXCEPT !.spectralFeatures = CreateFallbackFeatures,
                                      !.failedSteps = @ \cup {"spectral"}])

\* 'classification' event; without a service the throw is caught at once
StartClassification(rec) ==
    LET r == Emit(rec, ClassificationEvent)
    IN IF classificationService
       THEN [r EXCEPT !.pc = "classification"]
       ELSE StartSpectral([r EXCEPT
                !.audioClassification = CreateFallbackClassification,
                !.failedSteps = @ \cup {"classification"}])

\* 'speech' event; analyzeAudioFile is awaited only if there is a speech service
StartSpeech(rec) ==
    LET r == Emit(rec, SpeechEvent)
    IN IF speechService THEN [r EXCEPT !.pc = "speech"] ELSE StartClassification(r)

\* waitForServicesWithTimeout is left: its locals go out of scope
LeaveWait(rec) == [rec EXCEPT !.waited = 0, !.sleepUntil = 0, !.awaiting = 0]

\* waitForServicesWithTimeout from the head of its while loop to the next await
WaitLoop(c, rec) ==
    IF ~(rec.waited < Timeout)
    THEN /\ call' = [call EXCEPT ![c] =
                [LeaveWait(rec) EXCEPT !.pc = "failed",
                                       !.error = "ServiceUnavailable"]]
         /\ UNCHANGED engineVars
    ELSE IF ServicesReady
    THEN /\ call' = [call EXCEPT ![c] = StartSpeech(LeaveWait(rec))]
         /\ UNCHANGED engineVars
    ELSE IF isInitializing
    THEN /\ call' = [call EXCEPT ![c] =
                [rec EXCEPT !.pc = "wait_sleep",
                            !.sleepUntil = rec.waited + PollInterval]]
         /\ UNCHANGED engineVars
    ELSE /\ InitializeServices
         /\ call' = [call EXCEPT ![c] =
                [rec EXCEPT !.pc = "wait_init",
                            !.awaiting = initializationPromise']]

\* recognizeAudio is called: 'initializing' event, then the readiness wait
RecognizeAudio(c) ==
    /\ call[c].pc = "idle"
    /\ WaitLoop(c, Emit(call[c], InitializingEvent))
    /\ UNCHANGED harnessVars

\* setTimeout(resolve, 100) fires: back to the head of the loop
SleepEnds(c) ==
    /\ call[c].pc = "wait_sleep"
    /\ call[c].waited >= call[c].sleepUntil
    /\ WaitLoop(c, call[c])
    /\ UNCHANGED harnessVars

\* 'await this.initializeServices()' resumes; the loop then sleeps 100 ms
AwaitedInitializationSettles(c) ==
    /\ call[c].pc = "wait_init"
    /\ initRuns[call[c].awaiting] = "done"
    /\ call' = [call EXCEPT ![c].pc = "wait_sleep",
                            ![c].sleepUntil = call[c].waited + PollInterval]
    /\ UNCHANGED <<engineVars, harnessVars>>

\* Time passes: Date.now() moves by ms for every call inside the readiness
\* wait.  A timer that is due and a settled await run before more time passes.
\* The clock of a call is followed up to ClockCap.
Advance(ms) ==
    /\ \E c \in Calls : InWait(c) /\ call[c].waited < ClockCap
    /\ \A c \in Calls :
          /\ call[c].pc = "wait_sleep" => call[c].waited < call[c].sleepUntil
          /\ call[c].pc = "wait_init" => initRuns[call[c].awaiting] # "done"
    /\ call' = [c \in Calls |->
                 IF InWait(c)
                 THEN [call[c] EXCEPT !.waited = Min(@ + ms, ClockCap)]
                 ELSE call[c]]
    /\ UNCHANGED <<engineVars, harnessVars>>

\* the 100 ms timers fire on time
Tick == Advance(PollInterval)

\* the event loop is busy: the 100 ms timers fire late
TickLate == Advance(LatePolls * PollInterval)

\* speechService.analyzeAudioFile settles
SpeechSettles(c, outcome) ==
    /\ call[c].pc = "speech"
    /\ call' = [call EXCEPT ![c] =
            StartClassification(
                IF outcome.status = "fulfilled"
                THEN [call[c] EXCEPT !.speechAnalysis = outcome.value]
                ELSE [call[c] EXCEPT !.failedSteps = @ \cup {"speech"}])]
    /\ UNCHANGED <<engineVars, harnessVars>>

\* classificationService.classifyAudio settles
ClassificationSettles(c, outcome) ==
    /\ call[c].pc = "classification"
    /\ call' = [call EXCEPT ![c] =
            StartSpectral(
                IF outcome.status = "fulfilled"
                THEN [call[c] EXCEPT !.audioClassification = outcome.value]
                ELSE [call[c] EXCEPT
                        !.audioClassification = CreateFallbackClassification,
                        !.failedSteps = @ \cup {"classification"}])]
    /\ UNCHANGED <<engineVars, harnessVars>>

\* the spectral step with its catch block rethrowing
SpectralSettles_Rethrow(c, outcome) ==
    /\ call[c].pc = "spectral"
    /\ call' = [call EXCEPT ![c] =
            IF outcome.status = "fulfilled"
            THEN StartTensorFlow([call[c] EXCEPT !.spectralFeatures = outcome.value])
            ELSE [call[c] EXCEPT !.pc = "failed", !.error = outcome.reason,
                                 !.failedSteps = @ \cup {"spectral"}]]
    /\ UNCHANGED <<engineVars, harnessVars>>

\* audioAnalyzer.analyzeAudio settles
SpectralSettles(c, outcome) ==
    /\ call[c].pc = "spectral"
    /\ call' = [call EXCEPT ![c] =
            StartTensorFlow(
                IF outcome.status = "fulfilled"
                THEN [call[c] EXCEPT !.spectralFeatures = outcome.value]
                ELSE [call[c] EXCEPT
                        !.spectralFeatures = CreateFallbackFeatures,
                        !.failedSteps = @ \cup {"spectral"}])]
    /\ UNCHANGED <<engineVars, harnessVars>>

\* tensorFlowService.analyzeAudio settles
TensorFlowSettles(c, outcome) ==
    /\ call[c].pc = "tensorflow"
    /\ call' = [call EXCEPT ![c] =
            Finish(
                IF outcome.status = "fulfilled"
                THEN [call[c] EXCEPT !.tensorFlowAnalysis = outcome.value]
                ELSE [call[c] EXCEPT !.failedSteps = @ \cup {"tensorflow"}])]
    /\ UNCHANGED <<engineVars, harnessVars>>

InitOutcomes == {"ok", "importFail", "analyzerFail", "loadFail"}

Next ==
    \/ \E r \in Runs, o \in InitOutcomes : PerformInitialization(r, o)
    \/ \E c \in Calls : RecognizeAudio(c)
    \/ \E c \in Calls : SleepEnds(c)
    \/ \E c \in Calls : AwaitedInitializationSettles(c)
    \/ Tick
    \/ \E c \in Calls, o \in SpeechOutcomes : SpeechSettles(c, o)
    \/ \E c \in Calls, o \in ClassificationOutcomes : ClassificationSettles(c, o)
    \/ \E c \in Calls, o \in SpectralOutcomes : SpectralSettles(c, o)
    \/ \E c \in Calls, o \in TensorFlowOutcomes : TensorFlowSettles(c, o)

Spec == Init /\ [][Next]_vars

\* Two overlapping calls, followed through the readiness wait only: what the
\* services later settle with never touches the engine's initialization state.
\* Time is followed in steps of LatePolls poll intervals.
InitWait == Constructed(TwoCalls)

NextWait ==
    \/ \E r \in Runs, o \in InitOutcomes : PerformInitialization(r, o)
    \/ \E c \in Calls : RecognizeAudio(c)
    \/ \E c \in Calls : SleepEnds(c)
    \/ \E c \in Calls : AwaitedInitializationSettles(c)
    \/ TickLate

SpecWait == InitWait /\ [][NextWait]_vars

---------------------------------------------------------------------------
(* combineResults on its own: the arguments are drawn from what the four     *)
(* steps of recognizeAudio can leave in its locals, on an engine whose       *)
(* initialization has succeeded.                                             *)

CombineSpeechInputs == {Undefined, SpeechHello, SpeechInterimOnly, SpeechClear}

CombineClassificationInputs ==
    {CreateFallbackClassification, AnimalAnalysis, LongAudioAnalysis,
     SpeechTypeAnalysis}

CombineSpectralInputs == {CreateFallbackFeatures, ToneFeatures}

CombineTensorFlowInputs ==
    {Undefined, TensorFlowThunder, TensorFlowRain, TensorFlowEmpty}

CombineInputs ==
    [defined : {TRUE},
     speechAnalysis : CombineSpeechInputs,
     audioClassification : CombineClassificationInputs,
     spectralFeatures : CombineSpectralInputs,
     tensorFlowAnalysis : CombineTensorFlowInputs]

InitCombine ==
    /\ speechService = TRUE
    /\ classificationService = TRUE
    /\ audioAnalyzer = TRUE
    /\ isModelLoaded = TRUE
    /\ isInitializing = FALSE
    /\ initializationPromise = 1
    /\ initRuns = [r \in Runs |-> IF r = 1 THEN "done" ELSE "none"]
    /\ constructions = 1
    /\ initFailures = 0
    /\ call = [c \in {} |-> NoCall]
    /\ combineIn \in CombineInputs
    /\ combineOut = Undefined
    /\ classify = ClassifyIdle
    /\ classifiers = ClassifiersIdle
    /\ analyzer = AnalyzerIdle
    /\ UnitsIdle

\* this.combineResults(speechAnalysis, audioClassification, spectralFeatures,
\* tensorFlowAnalysis)
Combine ==
    /\ combineIn.defined
    /\ ~combineOut.defined
    /\ combineOut' =
          [defined |-> TRUE,
           value |-> CombineResults(combineIn.speechAnalysis,
                                    combineIn.audioClassification,
                                    combineIn.spectralFeatures,
                                    combineIn.tensorFlowAnalysis)]
    /\ UNCHANGED <<engineVars, call, combineIn, serviceVars, unitVars, componentVars>>

NextCombine == Combine

SpecCombine == InitCombine /\ [][NextCombine]_vars

---------------------------------------------------------------------------
(* The services on their own, on an engine whose initialization has          *)
(* succeeded.                                                                *)

EngineReady ==
    /\ speechService = TRUE
    /\ classificationService = TRUE
    /\ audioAnalyzer = TRUE
    /\ isModelLoaded = TRUE
    /\ isInitializing = FALSE
    /\ initializationPromise = 1
    /\ initRuns = [r \in Runs |-> IF r = 1 THEN "done" ELSE "none"]
    /\ constructions = 1
    /\ initFailures = 0
    /\ call = [c \in {} |-> NoCall]
    /\ combineIn = Undefined
    /\ combineOut = Undefined

\* the blobs classified: duration in seconds, size in bytes
BlobSamples ==
    {[defined |-> TRUE, duration |-> 30, typeIncludesAudio |-> TRUE,
      size |-> FiveMegabytes + 1],
     [defined |-> TRUE, duration |-> 30, typeIncludesAudio |-> FALSE, size |-> 1024],
     [defined |-> TRUE, duration |-> 3, typeIncludesAudio |-> FALSE, size |-> 1024],
     [defined |-> TRUE, duration |-> 90, typeIncludesAudio |-> FALSE, size |-> 1024]}

InitClassify ==
    /\ EngineReady
    /\ classify = ClassifyIdle
    /\ classifiers = ClassifiersIdle
    /\ analyzer = AnalyzerIdle
    /\ UnitsIdle

NextClassify ==
    \/ \E blob \in BlobSamples : ClassifyAudio(blob)
    \/ \E result \in HuggingFaceResults : HuggingFaceSettles(result)
    \/ MetadataLoaded
    \/ MediaError
    \/ MediaStalls
    \/ AllSettledResumes

\* every step that is enabled is eventually taken: timers fire, media events
\* are delivered, settled promises resume their awaits
SpecClassify == InitClassify /\ [][NextClassify]_vars /\ WF_vars(NextClassify)

\* the aggregation of classifyAudio as a function of what the three
\* classifiers settled with: a result, null, or a rejection
HuggingFaceOutcomes ==
    {Fulfilled(r) : r \in HuggingFaceResults} \cup {Fulfilled(Null), Rejected("network")}

AudioFeaturesOutcomes == {Fulfilled(MediumAudio), Fulfilled(Null), Rejected("media")}

PatternMatchingOutcomes ==
    {Fulfilled(HighQualityAudio), Fulfilled(Null), Rejected("blob")}

InitAggregate ==
    /\ EngineReady
    /\ classify = [ClassifyIdle EXCEPT !.pc = "awaiting"]
    /\ \E hf \in HuggingFaceOutcomes, af \in AudioFeaturesOutcomes,
          pm \in PatternMatchingOutcomes :
          classifiers = <<Settled(hf), Settled(af), Settled(pm)>>
    /\ analyzer = AnalyzerIdle
    /\ UnitsIdle

NextAggregate ==
    \/ AllSettledResumes
    \/ AggregateAgain

SpecAggregate == InitAggregate /\ [][NextAggregate]_vars

InitAnalyzer ==
    /\ EngineReady
    /\ classify = ClassifyIdle
    /\ classifiers = ClassifiersIdle
    /\ analyzer = AnalyzerIdle
    /\ UnitsIdle

NextAnalyzer ==
    \/ AnalyzeAudio
    \/ DecodeFails
    \/ DecodeSucceeds
    \/ \E d \in ExtractionDurations, f \in ExtractedFeatures : ExtractionCompletes(d, f)
    \/ TimerFires
    \/ AnalyzerTimePasses

SpecAnalyzer == InitAnalyzer /\ [][NextAnalyzer]_vars

\* the classification service and the analyzer at rest, on a ready engine
ServicesIdle ==
    /\ EngineReady
    /\ classify = ClassifyIdle
    /\ classifiers = ClassifiersIdle
    /\ analyzer = AnalyzerIdle

\* extractFeatures as a function of the decoded buffer, its sample rate and
\* what the analyser writes into its bins
SampleValues == {0 - 500, 0, 500}
MaxSamples == 3

ChannelDatas == UNION {[1..n -> SampleValues] : n \in 1..MaxSamples}

InitExtract ==
    /\ ServicesIdle
    /\ \E channelData \in ChannelDatas, sampleRate \in SampleRates, level \in SilentLevels :
          extract = [pc |-> "decoded", channelData |-> channelData,
                     sampleRate |-> sampleRate, level |-> level, features |-> Undefined]
    /\ recognition = RecognitionIdle
    /\ loader = LoaderLoaded
    /\ ComponentsIdle

NextExtract == ExtractFeaturesCompletes

SpecExtract == InitExtract /\ [][NextExtract]_vars

\* the spectral functions as functions of the spectrum: bins of several
\* spacings, so that bins lie on both sides of 80 Hz, 250 Hz, 800 Hz and
\* 4000 Hz and on them
BinWidths == {80, 125, 400, 2000}
MaxBins == 6
MagnitudeValues == {0, 1, 3, Infinity}

\* the frequencies of n bins of one width
BinFrequencies(n, width) == [i \in 1..n |-> (i - 1) * width]

InitSpectrum ==
    /\ ServicesIdle
    /\ \E n \in 1..MaxBins, width \in BinWidths :
          \E magnitudes \in [1..n -> MagnitudeValues] :
             extract = [pc |-> "spectrum", frequencies |-> BinFrequencies(n, width),
                        magnitudes |-> magnitudes, features |-> Undefined]
    /\ recognition = RecognitionIdle
    /\ loader = LoaderLoaded
    /\ ComponentsIdle

NextSpectrum == AnalyzeSpectrum

SpecSpectrum == InitSpectrum /\ [][NextSpectrum]_vars

\* the SpeechRecognitionService with two analyzeAudioFile calls
InitSpeech ==
    /\ ServicesIdle
    /\ extract = ExtractIdle
    /\ recognition = RecognitionIdle
    /\ loader = LoaderLoaded
    /\ ComponentsIdle

NextSpeech ==
    \/ \E k \in Callers, blobDuration \in BlobDurations : AnalyzeAudioFile(k, blobDuration)
    \/ \E k \in Callers : AudioMetadataLoaded(k)
    \/ OnStart
    \/ OnResult
    \/ OnError
    \/ OnEnd
    \/ \E k \in Callers : StopTimerFires(k)
    \/ SpeechTimePasses

SpecSpeech == InitSpeech /\ [][NextSpeech]_vars

\* a TensorFlowAudioRecognitionService on its own, from its construction
InitLoader ==
    /\ ServicesIdle
    /\ extract = ExtractIdle
    /\ recognition = RecognitionIdle
    /\ loader = LoaderIdle
    /\ ComponentsIdle

NextLoader ==
    \/ \E throws \in BOOLEAN : LoadModel(throws)
    \/ \E throws \in BOOLEAN : TensorFlowAnalyzeAudio(throws)
    \/ \E input \in AudioInputs : TensorFlowAnalysisSettles(input)
    \/ Dispose

SpecLoader == InitLoader /\ [][NextLoader]_vars

\* the three components on their own, each from its first render, beside an
\* engine whose initialization has succeeded
InitComponents ==
    /\ ServicesIdle
    /\ UnitsIdle

NextVisualizer ==
    \/ ChangeUrl
    \/ LoadTimerFires
    \/ \E l \in 1..MaxUrls, outcome \in LoadOutcomes : LoadSettles(l, outcome)
    \/ \E l \in 1..MaxUrls, event \in WaveSurferEvents : WaveSurferEmits(l, event)
    \/ UnmountVisualizer

SpecVisualizer == InitComponents /\ [][NextVisualizer]_vars

NextProcessor ==
    \/ \E isRecording \in BOOLEAN : SetRecording(isRecording)
    \/ \E k \in 1..MaxStarts : GetUserMediaResolves(k)
    \/ \E k \in 1..MaxStarts : GetUserMediaRejects(k)
    \/ \E k \in 1..MaxStarts : AnimationFrame(k)
    \/ UnmountProcessor

SpecProcessor == InitComponents /\ [][NextProcessor]_vars

NextRecorder ==
    \/ SetAudioData
    \/ DeleteAudio
    \/ RecorderAnalyzeAudio
    \/ \E a \in 1..MaxRecorderAnalyses, isAvailable \in BOOLEAN :
          AvailabilitySettles(a, isAvailable)
    \/ \E a \in 1..MaxRecorderAnalyses, progress \in ProgressStages :
          RecognitionProgressEvent(a, progress)
    \/ \E a \in 1..MaxRecorderAnalyses, fulfilled \in BOOLEAN :
          RecognizeSettles(a, fulfilled)
    \/ \E a \in 1..MaxRecorderAnalyses, fulfilled \in BOOLEAN :
          FeaturesSettle(a, fulfilled)

SpecRecorder == InitComponents /\ [][NextRecorder]_vars

\* recognizeAudio on two seconds of silence: what the four steps can settle
\* with for that input
SilentBlobs ==
    {[defined |-> TRUE, duration |-> 2, typeIncludesAudio |-> typed,
      size |-> 1024] : typed \in BOOLEAN}

\* classifyAudio: the mock classifier draws its result at random whatever the
\* audio is, the other two go by duration, type and size
SilentClassificationOutcomes ==
    {Fulfilled(Aggregate(<<Settled(Fulfilled(hf)),
                           Settled(Fulfilled(ClassifyByDuration(blob.duration))),
                           Settled(Fulfilled(ClassifyWithPatternMatching(blob)))>>)) :
        hf \in HuggingFaceResults, blob \in SilentBlobs}

SilentSpectralOutcomes ==
    {Fulfilled(ExtractFeatures(SilentBuffer, sampleRate, level)) :
        sampleRate \in SampleRates, level \in SilentLevels}

SilentTensorFlowOutcomes == {Fulfilled(TensorFlowEmpty), Fulfilled(TensorFlowUntrained)}

NextSilent ==
    \/ \E r \in Runs, o \in InitOutcomes : PerformInitialization(r, o)
    \/ \E c \in Calls : RecognizeAudio(c)
    \/ \E c \in Calls : SleepEnds(c)
    \/ \E c \in Calls : AwaitedInitializationSettles(c)
    \/ Tick
    \/ \E c \in Calls, o \in SpeechOutcomes : SpeechSettles(c, o)
    \/ \E c \in Calls, o \in SilentClassificationOutcomes : ClassificationSettles(c, o)
    \/ \E c \in Calls, o \in SilentSpectralOutcomes : SpectralSettles(c, o)
    \/ \E c \in Calls, o \in SilentTensorFlowOutcomes : TensorFlowSettles(c, o)

SpecSilent == Init /\ [][NextSilent]_vars

---------------------------------------------------------------------------
(* Properties *)

RunsStarted == Cardinality({r \in Runs : initRuns[r] # "none"})

Stages(events) == [i \in 1..Len(events) |-> events[i].stage]

IsPrefix(s, t) == Len(s) <= Len(t) /\ s = SubSeq(t, 1, Len(s))

HasStage(c, stage) == \E i \in 1..Len(call[c].events) : call[c].events[i].stage = stage

\* C1 as stated: over the constructor and any number of overlapping
\* recognizeAudio calls the subsystem set is constructed at most once, and no
\* second performInitialization starts while one is in flight.
C1_ConstructedAtMostOnce ==
    /\ constructions <= 1
    /\ Cardinality(RunsInFlight) <= 1

\* C1, amended: at most one performInitialization run is in flight at any time
\* and isInitializing is true exactly while one is; a further run is started
\* only after a run that ended in the catch block, never after a run that made
\* every subsystem ready; each run constructs the subsystem set at most once;
\* a call awaiting initializeServices awaits a run that was started.
C1_InitializationGuarded ==
    /\ Cardinality(RunsInFlight) <= 1
    /\ isInitializing <=> RunsInFlight # {}
    /\ RunsStarted <= initFailures + 1
    /\ constructions <= RunsStarted
    /\ ServicesReady => RunsInFlight = {}
    /\ \A c \in Calls :
          call[c].pc = "wait_init" => initRuns[call[c].awaiting] # "none"

\* two overlapping calls in the readiness wait, one having started a retry that
\* is in flight, the other polling, after a failed run that had constructed
C1_Witness ==
    /\ \E c, d \in Calls :
          /\ call[c].pc = "wait_init"
          /\ call[d].pc = "wait_sleep"
          /\ initRuns[call[c].awaiting] = "importing"
    /\ initFailures >= 1
    /\ constructions >= 1

\* C2: a recognizeAudio call is never inside the readiness wait after more
\* than the 5 s bound has elapsed: by then it has failed with the
\* service-unavailable error (or has gone on), whatever initialization does.
C2_BoundedReadinessWait ==
    \A c \in Calls : InWait(c) => call[c].waited <= Timeout

CodeStageOrder ==
    <<"initializing", "speech", "classification", "spectral", "tensorflow",
      "combining", "complete">>

C4_ProgressMonotone ==
    \A c \in Calls :
        LET ev == call[c].events IN
        \A i \in 1..Len(ev) :
            /\ ev[i].progress >= 0
            /\ ev[i].progress <= 100
            /\ ev[i].progress = 100 => ev[i].stage = "complete"
            /\ i > 1 => ev[i - 1].progress <= ev[i].progress

\* a call whose last event carries 100, right after the one that carries 90
C4_Witness ==
    \E c \in Calls :
        LET ev == call[c].events IN
        /\ Len(ev) >= 6
        /\ ev[Len(ev)].progress = 100
        /\ ev[Len(ev) - 1].progress = 90

SpectralReasons == {"decode", "Analysis timeout"}

C6_RecoverableFailureNeverFatal ==
    \A c \in Calls :
        call[c].failedSteps \cap {"speech", "classification"} # {}
            => call[c].pc # "failed"

\* C7: the detectedContent of a result returned after the speech step failed
\* records the failure: it differs from the detectedContent of every result
\* the same inputs give when the speech step succeeds.
C7_DegradationRecorded ==
    \A c \in Calls :
        (call[c].pc = "done" /\ "speech" \in call[c].failedSteps) =>
            \A o \in SpeechOutcomes :
                o.status = "fulfilled" =>
                    CombineResults(o.value, call[c].audioClassification,
                                   call[c].spectralFeatures,
                                   call[c].tensorFlowAnalysis).detectedContent
                        # call[c].result.detectedContent

\* C8: once the readiness wait and feature extraction have succeeded the call
\* does not fail, whatever the speech, classification and TensorFlow steps
\* settle with.
C8_AlwaysFused ==
    \A c \in Calls :
        (call[c].spectralFeatures.defined /\ "spectral" \notin call[c].failedSteps)
            => call[c].pc # "failed"

NoSource == [present |-> FALSE, confidence |-> 0, text |-> <<>>]

\* the three sources of a combineResults evaluation in priority order, each
\* with its confidence and the text it gives the primary recognition
CombineSources(in) ==
    << IF in.tensorFlowAnalysis.defined /\ in.tensorFlowAnalysis.primaryRecognition.defined
       THEN [present |-> TRUE,
             confidence |-> in.tensorFlowAnalysis.primaryRecognition.confidence,
             text |-> <<in.tensorFlowAnalysis.primaryRecognition.label, ": ",
                        in.tensorFlowAnalysis.primaryRecognition.description>>]
       ELSE NoSource,
       IF in.speechAnalysis.defined
       THEN [present |-> TRUE,
             confidence |-> in.speechAnalysis.confidence,
             text |-> <<"Speech detected: \"", in.speechAnalysis.transcription, "\"">>]
       ELSE NoSource,
       [present |-> TRUE,
        confidence |-> in.audioClassification.primaryClassification.confidence,
        text |-> <<in.audioClassification.primaryClassification.label, ": ",
                   in.audioClassification.primaryClassification.description>>] >>

\* the earliest source among those of the greatest confidence
FirstOfGreatest(srcs) ==
    CHOOSE i \in 1..Len(srcs) :
        /\ srcs[i].present
        /\ \A j \in 1..Len(srcs) :
              srcs[j].present =>
                 \/ srcs[j].confidence < srcs[i].confidence
                 \/ srcs[j].confidence = srcs[i].confidence /\ i <= j

\* the primary recognition without the 'Mixed content: ... with background ...'
\* wrapping
BaseText(primaryRecognition) ==
    IF Len(primaryRecognition) > 0 /\ primaryRecognition[1] = "Mixed content: "
    THEN SubSeq(primaryRecognition, 2, Len(primaryRecognition) - 2)
    ELSE primaryRecognition

Combined == combineOut.defined /\ ~combineOut.value.threw

\* C9: the primary recognition of combineResults comes from the source of the
\* greatest confidence among TensorFlow result, transcription and aggregated
\* classification, and on equal confidence from the earlier one in that order:
\* a later source replaces the holder only on strictly greater confidence.
C9_PriorityOrder ==
    Combined =>
        LET srcs == CombineSources(combineIn)
        IN BaseText(combineOut.value.primaryRecognition)
              = srcs[FirstOfGreatest(srcs)].text

\* a TensorFlow result and a transcription of equal confidence, neither
\* exceeded by the classification: the TensorFlow result is kept
C9_Witness ==
    /\ Combined
    /\ LET srcs == CombineSources(combineIn)
       IN /\ srcs[1].present /\ srcs[2].present
          /\ srcs[1].confidence = srcs[2].confidence
          /\ srcs[3].confidence <= srcs[1].confidence
          /\ BaseText(combineOut.value.primaryRecognition) = srcs[1].text

Tokens(seq) == {seq[i] : i \in 1..Len(seq)}

\* C10: whenever a transcription and a non-speech classification are both
\* present, the returned audioType is mixed and the returned primaryRecognition
\* holds both the transcription and the classification.
C10_MixedConcatenatesBoth ==
    (/\ Combined
     /\ combineIn.speechAnalysis.defined
     /\ combineIn.audioClassification.primaryClassification.category # "speech")
        => /\ combineOut.value.audioType = "mixed"
           /\ combineIn.speechAnalysis.transcription
                 \in Tokens(combineOut.value.primaryRecognition)
           /\ ToLowerCase(combineIn.audioClassification.primaryClassification.label)
                 \in Tokens(combineOut.value.primaryRecognition)

---------------------------------------------------------------------------
(* Properties of classifyAudio *)

Returned == classify.pc = "returned"

\* the slots whose classifier settled with a result
ValidSlots ==
    {s \in Slots : /\ classify.joined[s].state = "settled"
                   /\ classify.joined[s].status = "fulfilled"
                   /\ classify.joined[s].value # Null}

\* primaryClassification followed by secondaryClassifications
Ranked ==
    <<classify.result.primaryClassification>>
        \o classify.result.secondaryClassifications

\* C11: classifyAudio keeps exactly the outcomes that are fulfilled with a
\* result, dropping the null and the rejected ones; with none left it returns
\* the fixed fallback analysis (Audio Content, 0.5, other, mixed); it always
\* returns an analysis.
C11_DropsInvalidOrFallsBack ==
    Returned =>
        /\ classify.result.defined
        /\ ValidSlots = {} =>
              /\ classify.result.primaryClassification.label = "Audio Content"
              /\ classify.result.primaryClassification.confidence = 500
              /\ classify.result.primaryClassification.category = "other"
              /\ classify.result.secondaryClassifications = <<>>
              /\ classify.result.overallConfidence = 500
              /\ classify.result.audioType = "mixed"
        /\ ValidSlots # {} =>
              /\ Len(Ranked) = Cardinality(ValidSlots)
              /\ {Ranked[i] : i \in 1..Len(Ranked)}
                    = {classify.joined[s].value : s \in ValidSlots}

\* the three classifiers settled with null, a rejection and null or a
\* rejection, and the fallback analysis came back
C11_Witness ==
    /\ Returned
    /\ ValidSlots = {}
    /\ \E s \in Slots : classify.joined[s].status = "rejected"
    /\ \E s \in Slots : classify.joined[s].status = "fulfilled"
    /\ classify.result.primaryClassification.label = "Audio Content"

\* the place in the ranking of the result of slot s
RankOf(s) == CHOOSE i \in 1..Len(Ranked) : Ranked[i] = classify.joined[s].value

\* C12: the valid results are ranked by confidence descending, equal
\* confidences in dispatch order; the first is the primary classification and
\* the next up to two are the secondary ones.
C12_RankedStable ==
    (Returned /\ ValidSlots # {}) =>
        /\ Len(classify.result.secondaryClassifications) <= 2
        /\ Len(Ranked) = Cardinality(ValidSlots)
        /\ \A s, t \in ValidSlots :
              LET a == classify.joined[s].value
                  b == classify.joined[t].value
              IN (\/ a.confidence > b.confidence
                  \/ a.confidence = b.confidence /\ s < t)
                    => RankOf(s) < RankOf(t)

\* three valid results, the first and the last dispatched of equal confidence
\* above the middle one: the first dispatched is the primary classification
C12_Witness ==
    /\ Returned
    /\ ValidSlots = Slots
    /\ classify.joined[1].value.confidence = classify.joined[3].value.confidence
    /\ classify.joined[2].value.confidence < classify.joined[1].value.confidence
    /\ classify.result.primaryClassification = classify.joined[1].value
    /\ classify.result.secondaryClassifications
          = <<classify.joined[3].value, classify.joined[2].value>>

ValidCategories == {classify.joined[s].value.category : s \in ValidSlots}

AudioTypePrecedence == <<"music", "speech", "environmental">>

\* C13: audioType is the first of music, speech, environmental that is the
\* category of some valid result, and mixed if none is.
C13_AudioTypePrecedence ==
    (Returned /\ ValidSlots # {}) =>
        LET present == {i \in 1..Len(AudioTypePrecedence) :
                           AudioTypePrecedence[i] \in ValidCategories}
        IN IF present = {}
           THEN classify.result.audioType = "mixed"
           ELSE \E i \in present :
                   /\ \A j \in present : i <= j
                   /\ classify.result.audioType = AudioTypePrecedence[i]

\* the primary classification is speech, a lower-ranked result is music: music
C13_Witness ==
    /\ Returned
    /\ classify.result.primaryClassification.category = "speech"
    /\ "music" \in ValidCategories
    /\ classify.result.audioType = "music"

\* C14: overallConfidence is the arithmetic mean of the confidences of all the
\* valid results: times their number it is their sum.
C14_OverallIsMean ==
    (Returned /\ ValidSlots # {}) =>
        classify.result.overallConfidence * Cardinality(ValidSlots)
            = SumOfConfidences(
                 ValidClassifications([s \in Slots |->
                    IF s \in ValidSlots
                    THEN classify.joined[s]
                    ELSE [status |-> "rejected"]]))

\* three valid results of three different confidences
C14_Witness ==
    /\ Returned
    /\ ValidSlots = Slots
    /\ Cardinality({classify.joined[s].value.confidence : s \in Slots}) = 3
    /\ classify.result.overallConfidence * 3
          = classify.joined[1].value.confidence
            + classify.joined[2].value.confidence
            + classify.joined[3].value.confidence

\* C15: the three classifiers are dispatched together, and the ranking is
\* computed only once every one of them has settled: what the ranking was
\* computed over is what the classifiers have settled with, then and after.
C15_JoinBeforeAggregation ==
    /\ classify.pc # "idle" => \A s \in Slots : classifiers[s].state # "idle"
    /\ Returned =>
          /\ \A s \in Slots : classify.joined[s].state = "settled"
          /\ classify.joined = classifiers

\* the call returned after the media element reported an error and the mock
\* classifier's timer had fired
C15_Witness ==
    /\ Returned
    /\ classifiers[2] = Settled(Fulfilled(Null))
    /\ classifiers[1].state = "settled"
    /\ classify.result.primaryClassification = classifiers[1].value

\* C16: every classifier of a dispatched classifyAudio call eventually settles,
\* so the call eventually returns.
C16_EveryClassifierSettles ==
    (classify.pc = "awaiting") ~> (classify.pc = "returned")

---------------------------------------------------------------------------
(* Properties of AudioAnalyzer.analyzeAudio *)

\* C17: a call has one outcome, the features or a failure; it fails with the
\* decode error or, if extraction took longer than the 10 s bound, with the
\* timeout error: features are delivered only within the bound.
C17_OneOutcomeWithinBound ==
    /\ analyzer.pc = "returned" =>
          /\ analyzer.result.defined
          /\ analyzer.error = "none"
          /\ analyzer.took <= AnalysisTimeout
    /\ analyzer.pc = "failed" =>
          /\ ~analyzer.result.defined
          /\ analyzer.error \in {"decode", "Analysis timeout"}

\* C18: when a call has returned or failed, the buffer source is disconnected
\* and no timeout timer that a call armed is pending.
C18_ResourcesReleased ==
    analyzer.pc \in {"returned", "failed"} =>
        /\ ~analyzer.sourceConnected
        /\ analyzer.timers = <<>>

---------------------------------------------------------------------------
(* Properties of a failing recognizeAudio *)

C20_UnreadyCallFails ==
    \A c \in Calls :
        /\ (InWait(c) /\ ~ServicesReady) => call[c].waited <= Timeout
        /\ (call[c].pc = "failed" /\ call[c].error = "ServiceUnavailable") =>
              /\ Stages(call[c].events) = <<"initializing">>
              /\ \A i \in 1..Len(call[c].events) : call[c].events[i].progress < 100

HasToken(text, token) == \E i \in 1..Len(text) : text[i] = token

\* C21: a recognizeAudio call on two seconds of silence that has passed the
\* readiness wait does not fail, and its result has audioType mixed or the
\* fallback label 'Audio Content' and a confidence of about 0.5.
C21_SilentCompletes ==
    \A c \in Calls :
        /\ call[c].pc = "failed" => call[c].error = "ServiceUnavailable"
        /\ call[c].pc = "done" =>
              /\ \/ call[c].result.audioType = "mixed"
                 \/ HasToken(call[c].result.primaryRecognition, "Audio Content")
              /\ call[c].result.confidence \in 450..550

\* C22: the spectralFeatures of every result recognizeAudio returns have a
\* tempo within [60, 200].
C22_TempoClamped ==
    \A c \in Calls :
        call[c].pc = "done" => call[c].result.spectralFeatures.tempo \in 60..200

AllZero(channelData) == \A i \in 1..Len(channelData) : channelData[i] = 0

\* C23: the features extracted from a buffer whose samples are all zero have
\* rmsEnergy 0, zeroCrossingRate 0 and spectralCentroid 0.
C23_SilenceHasZeroFeatures ==
    (extract.pc = "extracted" /\ AllZero(extract.channelData)) =>
        /\ extract.features.rmsEnergy = 0
        /\ extract.features.zeroCrossingRate = 0
        /\ extract.features.spectralCentroid = 0

\* the bins at which the cumulative magnitude has reached the share threshold
\* (in percent) of the total
ReachingBins(magnitudes, threshold) ==
    {i \in 1..Len(magnitudes) :
        Ge(Times(SumOfMagnitudes(magnitudes, i), 100),
           Times(threshold, SumOfMagnitudes(magnitudes, Len(magnitudes))))}

RolloffThresholds == {50, RolloffThreshold, 100}

\* C24: for a non-empty spectrum the spectral rolloff is the frequency of the
\* lowest bin at which the cumulative magnitude reaches 85% of the total, so
\* one of the frequencies, and the rolloff computed with a greater threshold
\* is never a lower frequency.
C24_RolloffIsLowestReachingBin ==
    extract.pc = "analyzed" =>
        LET reaching == ReachingBins(extract.magnitudes, RolloffThreshold)
        IN /\ reaching # {}
           /\ \E i \in reaching :
                 /\ \A j \in reaching : i <= j
                 /\ extract.features.spectralRolloff = extract.frequencies[i]
           /\ \A t1, t2 \in RolloffThresholds :
                 t1 <= t2 =>
                    SpectralRolloffAt(extract.frequencies, extract.magnitudes, t1)
                       <= SpectralRolloffAt(extract.frequencies, extract.magnitudes, t2)

\* a spectrum whose rolloff lies strictly inside it and moves with the
\* threshold
C24_Witness ==
    /\ extract.pc = "analyzed"
    /\ Len(extract.frequencies) >= 4
    /\ extract.features.spectralRolloff = extract.frequencies[3]
    /\ SpectralRolloffAt(extract.frequencies, extract.magnitudes, 50)
          < extract.features.spectralRolloff
    /\ SpectralRolloffAt(extract.frequencies, extract.magnitudes, 100)
          > extract.features.spectralRolloff

Bands == {"low", "mid", "high"}

ConfidenceBeforeEnhancement(in) ==
    ClassificationPriority(
        SpeechPriority(TensorFlowPriority(CombineLocals, in.tensorFlowAnalysis),
                       in.speechAnalysis),
        in.audioClassification).confidence

\* C27: when a transcription is present and the primary classification's
\* confidence exceeds 0.7, the confidence combineResults returns is not lower
\* than the confidence it held before the enhancement step.
C27_EnhancementNeverLowers ==
    (/\ Combined
     /\ combineIn.speechAnalysis.defined
     /\ combineIn.audioClassification.primaryClassification.confidence > 700)
        => combineOut.value.confidence >= ConfidenceBeforeEnhancement(combineIn)

\* C28: a startRecognition call made while a session started by an earlier
\* call is active returns false, reports through its own onError and leaves
\* the registered onResult and onError callbacks as they were.
C28_SecondStartLeavesSession ==
    recognition.lastStart.sessionActive =>
        /\ ~recognition.lastStart.returned
        /\ recognition.lastStart.reported = recognition.lastStart.caller
        /\ recognition.lastStart.after = recognition.lastStart.before

\* C29: the stop timer of an analyzeAudioFile call is armed with the audio's
\* duration plus 2 s, capped at 30 s.
C29_StopsAfterDurationPlusTwo ==
    \A k \in Callers :
        recognition.files[k].pc \in {"waiting", "stopped"} =>
            recognition.files[k].delay = StopDelay(recognition.files[k].blobDuration)

\* C30: modelLoadingPromise is null whenever no load is in flight, and a
\* loadModel call that finds the model not loaded and no load in flight starts
\* a fresh load.  performModelLoading has run to its end when any other
\* handler runs, so no load is in flight in any state between handlers.
C30_LoadModelDeduplicates ==
    /\ loader.modelLoadingPromise = 0
    /\ (loader.lastLoad.returned # "none" /\ ~loader.lastLoad.loadedBefore)
          => loader.lastLoad.startedLoad

\* the bins estimatePitch looks at
PitchBins(frequencies) ==
    {i \in 1..Len(frequencies) : frequencies[i] > 80 /\ frequencies[i] < 800}

BinOf(frequency) ==
    CHOOSE i \in 1..Len(extract.frequencies) : extract.frequencies[i] = frequency

\* C38: findDominantFrequencies returns the frequencies of min(5, number of
\* bins) different bins, in the order of descending magnitude, and no bin
\* left out has a greater magnitude than one reported.
C38_DominantAreStrongest ==
    extract.pc = "analyzed" =>
        LET dominant == extract.features.dominantFrequencies
            count == Len(dominant)
            reported == {BinOf(dominant[k]) : k \in 1..count}
        IN /\ count = Min(5, Len(extract.frequencies))
           /\ \A k \in 1..count :
                 \E i \in 1..Len(extract.frequencies) : extract.frequencies[i] = dominant[k]
           /\ Cardinality(reported) = count
           /\ \A k \in 1..(count - 1) :
                 extract.magnitudes[BinOf(dominant[k])]
                    >= extract.magnitudes[BinOf(dominant[k + 1])]
           /\ \A i \in reported, j \in (1..Len(extract.frequencies)) \ reported :
                 extract.magnitudes[j] <= extract.magnitudes[i]

\* six bins, the weakest one first, ties among the five reported
C38_Witness ==
    /\ extract.pc = "analyzed"
    /\ extract.magnitudes = <<0, 3, 1, 3, 1, Infinity>>
    /\ Len(extract.features.dominantFrequencies) = 5
    /\ extract.features.dominantFrequencies[1] = extract.frequencies[6]
    /\ extract.features.dominantFrequencies[2] = extract.frequencies[2]
    /\ extract.features.dominantFrequencies[3] = extract.frequencies[4]

\* the adjacent pairs of which exactly one sample is negative
SignChanges(channelData) ==
    {i \in 1..(Len(channelData) - 1) : (channelData[i] < 0) # (channelData[i + 1] < 0)}

\* the adjacent pairs of a positive and a negative sample
OppositeSigns(channelData) ==
    {i \in 1..(Len(channelData) - 1) : channelData[i] * channelData[i + 1] < 0}

\* C39 (as the code has it): for a buffer of N >= 2 samples the zero-crossing
\* rate is the number of adjacent pairs of which exactly one sample is
\* negative, a zero counting as non-negative, divided by N - 1; it lies in
\* [0, 1].
C39_ZeroCrossingRate ==
    (extract.pc = "extracted" /\ Len(extract.channelData) >= 2) =>
        /\ extract.features.zeroCrossingRate
              = (Cardinality(SignChanges(extract.channelData)) * 1000)
                   \div (Len(extract.channelData) - 1)
        /\ extract.features.zeroCrossingRate \in 0..1000

\* a buffer that touches zero between two negative samples
C39_Witness ==
    /\ extract.pc = "extracted"
    /\ extract.channelData = <<0 - 500, 0, 0 - 500>>
    /\ extract.features.zeroCrossingRate = 1000

\* C39 (as stated): the zero-crossing rate is the number of adjacent pairs of
\* samples of opposite sign divided by N - 1.
C39_CountsOppositeSigns ==
    (extract.pc = "extracted" /\ Len(extract.channelData) >= 2) =>
        extract.features.zeroCrossingRate
           = (Cardinality(OppositeSigns(extract.channelData)) * 1000)
                \div (Len(extract.channelData) - 1)

\* C31: every analysis TensorFlowAudioRecognitionService.analyzeAudio resolves
\* with has a defined primaryRecognition, because the ranked list is never
\* empty.  Violated: when no prediction is above 0.1 (every prediction NaN for
\* silent audio, or a flat softmax output) the ranked list is empty and
\* results[0] is undefined.
C31_PrimaryRecognitionDefined ==
    \A i \in 1..Len(loader.analyses) :
        loader.analyses[i].status = "fulfilled"
            => loader.analyses[i].value.primaryRecognition.defined

\* C32: every result combineResults returns for a classification whose primary
\* confidence is positive has a non-empty primaryRecognition and an audioType
\* other than 'unknown', whichever of the speech and TensorFlow analyses are
\* present.
C32_RecognitionAndTypeSet ==
    (/\ Combined
     /\ combineIn.audioClassification.primaryClassification.confidence > 0)
        => /\ combineOut.value.primaryRecognition # <<>>
           /\ combineOut.value.audioType # "unknown"

\* the classification alone decides, through the default branch
C32_Witness ==
    /\ Combined
    /\ ~combineIn.speechAnalysis.defined
    /\ ~combineIn.tensorFlowAnalysis.defined
    /\ combineIn.audioClassification.primaryClassification.category = "other"
    /\ combineIn.audioClassification.primaryClassification.confidence > 0
    /\ combineOut.value.audioType = "mixed"
    /\ combineOut.value.primaryRecognition =
          <<"Audio Content", ": ", "General audio content detected">>

\* the confidences of the three sources lie in [0,1]
SourceConfidencesInRange(in) ==
    /\ in.speechAnalysis.defined => in.speechAnalysis.confidence \in 0..1000
    /\ in.audioClassification.primaryClassification.confidence \in 0..1000
    /\ in.audioClassification.overallConfidence \in 0..1000
    /\ (in.tensorFlowAnalysis.defined /\ in.tensorFlowAnalysis.primaryRecognition.defined)
          => in.tensorFlowAnalysis.primaryRecognition.confidence \in 0..1000

\* C33: the confidence of every result combineResults returns lies in [0,1]
\* whenever the speech, classification and TensorFlow confidences do.
C33_ConfidenceInRange ==
    (Combined /\ SourceConfidencesInRange(combineIn))
        => combineOut.value.confidence \in 0..1000

\* the enhancement step has averaged a speech confidence with the
\* classification's overall confidence
C33_Witness ==
    /\ Combined
    /\ SourceConfidencesInRange(combineIn)
    /\ combineIn.speechAnalysis.defined
    /\ combineIn.tensorFlowAnalysis.defined
    /\ combineIn.audioClassification.primaryClassification.confidence > 700
    /\ combineOut.value.confidence # ConfidenceBeforeEnhancement(combineIn)
    /\ combineOut.value.confidence \in 1..950

\* C34: when the audio URL changes while a waveform load is in progress, the
\* superseded loadAudio call never afterwards sets isLoading or error, and its
\* WaveSurfer instance is destroyed.  Violated: a superseded call whose load
\* rejects after the next call has installed its own AbortController reads
\* the new controller's signal and sets error and isLoading.
C34_SupersededLoadCancelled ==
    /\ visualizer.staleWrites = {}
    /\ \A l \in StartedLoads(visualizer) :
          l \in visualizer.aborted => l \in visualizer.destroyed

\* C35: whenever isRecording is false (or the component is unmounted) and no
\* startRealTimeAnalysis call is pending, no microphone stream or AudioContext
\* is open and no animation frame is scheduled.  Violated: a getUserMedia that
\* resolves after recording was switched off opens all three.
C35_NothingHeldWhenStopped ==
    (/\ ~processor.isRecording \/ ~processor.mounted
     /\ processor.pending = {})
        => /\ processor.streams = {}
           /\ processor.contexts = {}
           /\ processor.frames = {}

\* C36: at most one analyzeAudio call is in flight, isAnalyzing is true as
\* long as one is, and once none is in flight after an analysis has ended
\* isAnalyzing is false and recognitionProgress is null.  Violated: deleteAudio
\* clears isAnalyzing under a running analysis, which re-enables the button.
C36_OneAnalysisInFlight ==
    /\ Cardinality(InFlight(recorder)) <= 1
    /\ InFlight(recorder) # {} => recorder.isAnalyzing
    /\ (/\ InFlight(recorder) = {}
        /\ \E a \in 1..MaxRecorderAnalyses : recorder.analyses[a] = "done")
          => /\ ~recorder.isAnalyzing
             /\ recorder.recognitionProgress = 0

====
